---- MODULE Spec2Model ----
(***************************************************************************)
(* A model of fs-dropbox (src/dropboxfs.py): the metadata/listing cache    *)
(* (CacheItem, DropboxCache), the caching client (DropboxClient) that      *)
(* keeps it in step with the remote operations, and the two file objects   *)
(* (SpooledWriter, ChunkedReader).                                         *)
(*                                                                         *)
(* Paths are sequences of path components: "/" is <<>>, "/a" is <<"a">>,   *)
(* "/a/b" is <<"a", "b">>.  An optional value (Python's None or a value)   *)
(* is a sequence of length at most one: None is <<>>, a value v is <<v>>.  *)
(***************************************************************************)
EXTENDS Integers, Sequences, FiniteSets, TLC

VARIABLES
    cache,   \* DropboxClient.cache: a dict from path to CacheItem
    now,     \* time.time()
    last,    \* the last operation: its arguments, outcome and remote calls
    ops,     \* the number of operations performed so far
    remote,  \* the contents of the files the remote stores
    writer,  \* a SpooledWriter
    reader,  \* a ChunkedReader
    streams, \* the download streams (response.raw) opened so far
    io,      \* the last operation on the writer or the reader, and their history
    callers  \* the threads calling one DropboxFS: its lock and where each is

vars == <<cache, now, last, ops, remote, writer, reader, streams, io, callers>>

\* The state of the files, their writer and their reader.
fileVars == <<remote, writer, reader, streams, io>>

----------------------------------------------------------------------------
(* Bounds of the model and constants of the program.                       *)

\* Items in cache are considered expired after 5 minutes.
CACHE_TTL == 300

\* The number of client operations of one run.
MaxOps == 2

\* The number of CacheStore operations of one run of SpecStore.
MaxStoreOps == 5

\* The longest folder listing the remote returns.
MaxListing == 2

\* The longest file the remote stores when a run starts.
MaxFile == 3

\* The largest amount of a read and the largest offset of a relative seek.
MaxAmt == 2

\* The number of seek, read and close calls on one reader before its last
\* close.
MaxReaderOps == 3

\* The number of write calls on one writer.
MaxWrites == 2

\* The longest data of one write call.
MaxData == 2

\* max_buffer of the writers of a run, scaled down from MAX_BUFFER.
MaxBuffer == 2

\* The number of threads calling one DropboxFS, and of the calls of each.
MaxCallers == 2

MaxCalls == 1

----------------------------------------------------------------------------
(* Paths.                                                                  *)

Root == <<>>

Paths == {Root, <<"a">>, <<"b">>, <<"a", "b">>}

\* fs.path.pathsplit: ('/', '') for the root, (dirname, basename) otherwise.
pathsplit(path) ==
    IF path = Root
    THEN <<Root, "">>
    ELSE <<SubSeq(path, 1, Len(path) - 1), path[Len(path)]>>

dirname(path) == pathsplit(path)[1]

basename(path) == pathsplit(path)[2]

----------------------------------------------------------------------------
(* Optional values and metadata.                                           *)

None == <<>>

Some(v) == <<v>>

\* CacheItem(metadata=None): an item without metadata.
NoMetadata == [kind |-> "None", path |-> Root]

\* What the remote returns for a path: FolderMetadata, FileMetadata or
\* DeletedMetadata (a tombstone), with its path_display.
Metadata(kind, path) == [kind |-> kind, path |-> path]

FolderMetadata(path) == Metadata("folder", path)

LiveKinds == {"folder", "file"}

Kinds == LiveKinds \cup {"deleted"}

----------------------------------------------------------------------------
(* CacheItem.                                                              *)

CacheItem(metadata, children, timestamp) ==
    [metadata |-> metadata, children |-> children, timestamp |-> timestamp]

add_child(item, name) ==
    IF item.children = None
    THEN [item EXCEPT !.children = Some(<<name>>)]
    ELSE [item EXCEPT !.children = Some(Append(item.children[1], name))]

\* list.index(name): the first position of name.
index(list, name) ==
    CHOOSE i \in 1..Len(list) :
        list[i] = name /\ \A j \in 1..(i - 1) : list[j] # name

\* list.pop(i)
pop_at(list, i) ==
    [j \in 1..(Len(list) - 1) |-> IF j < i THEN list[j] ELSE list[j + 1]]

\* A faulty variant of del_child: a list that becomes empty becomes None.
del_child_to_none(item, name) ==
    IF item.children = None
    THEN item
    ELSE IF \A i \in 1..Len(item.children[1]) : item.children[1][i] # name
         THEN item
         ELSE IF Len(item.children[1]) = 1
         THEN [item EXCEPT !.children = None]
         ELSE [item EXCEPT
                  !.children = Some(pop_at(item.children[1],
                                           index(item.children[1], name)))]

del_child(item, name) ==
    IF item.children = None
    THEN item
    ELSE IF \A i \in 1..Len(item.children[1]) : item.children[1][i] # name
         THEN item
         ELSE [item EXCEPT
                  !.children = Some(pop_at(item.children[1],
                                           index(item.children[1], name)))]

\* A faulty variant of expired: an item expires one second late.
expired_late(item, t) == item.timestamp < t - CACHE_TTL

\* CacheItem.expired at time t.
expired(item, t) == item.timestamp <= t - CACHE_TTL

\* CacheItem.renew() at time t.
renew(item, t) == [item EXCEPT !.timestamp = t]

----------------------------------------------------------------------------
(* DropboxCache: a dict with parent/child links.                           *)

EmptyCache == [p \in {} |-> NoMetadata]

\* self[path] = item
setitem(c, path, item) ==
    [q \in (DOMAIN c) \cup {path} |-> IF q = path THEN item ELSE c[q]]

\* UserDict.pop(self, path, default)
delitem(c, path) == [q \in (DOMAIN c) \ {path} |-> c[q]]

DropboxCache_set(c, path, metadata, t) ==
    LET c1 == setitem(c, path, CacheItem(metadata, None, t))
        dname == pathsplit(path)[1]
        bname == pathsplit(path)[2]
    IN  IF dname \in DOMAIN c1
        THEN setitem(c1, dname, add_child(c1[dname], bname))
        ELSE c1

DropboxCache_pop(c, path) ==
    LET c1 == delitem(c, path)
        dname == pathsplit(path)[1]
        bname == pathsplit(path)[2]
    IN  IF dname \in DOMAIN c1
        THEN setitem(c1, dname, del_child(c1[dname], bname))
        ELSE c1

----------------------------------------------------------------------------
(* What the remote API answers: a value, an ApiError carrying the error    *)
(* tag the client inspects, or a BadInputError carrying its message.       *)
(* BadInputError is no ApiError: no handler of an ApiError catches it.     *)

Ok(meta) == [tag |-> "ok", meta |-> meta]

OkList(entries) == [tag |-> "ok", entries |-> entries]

ApiError(error) == [tag |-> "ApiError", error |-> error]

BadInputError(message) == [tag |-> "BadInputError", message |-> message]

\* 'The root folder is unsupported' in e.message
RootUnsupported == BadInputError("The root folder is unsupported")

\* 'Specify the root folder as an empty string' in e.message
RootAsEmptyString == BadInputError("Specify the root folder as an empty string")

Malformed == BadInputError("malformed path")

\* The paths directly below path.
ChildPaths(path) ==
    {q \in Paths : Len(q) = Len(path) + 1 /\ SubSeq(q, 1, Len(path)) = path}

\* ListFolderResult.entries: entries directly below path, one per name,
\* tombstones among them, in the remote's order.
Listings(path) ==
    {l \in UNION {[1..n -> {Metadata(k, q) : k \in Kinds, q \in ChildPaths(path)}] :
                    n \in 0..MaxListing} :
        \A i, j \in 1..Len(l) : l[i].path = l[j].path => i = j}

\* The answers of files_get_metadata(path); the root is a folder.
MetadataResponses(path) ==
    {Ok(Metadata(k, path)) : k \in IF path = Root THEN {"folder"} ELSE Kinds}
        \cup {ApiError("not_found"), ApiError("other"), Malformed}
        \cup (IF path = Root THEN {RootUnsupported} ELSE {})

\* The answers of files_list_folder(path), and of its retry with ''.
RetryResponses(path) ==
    {OkList(l) : l \in Listings(path)} \cup {ApiError("other"), Malformed}

ListResponses(path) ==
    RetryResponses(path) \cup (IF path = Root THEN {RootAsEmptyString} ELSE {})

----------------------------------------------------------------------------
(* DropboxClient.  Each operation is a function of the cache, the time,    *)
(* its arguments and the remote's answers; it yields the cache afterwards, *)
(* the outcome ("ok" or the exception raised), the value returned and the  *)
(* remote calls made.                                                      *)

Result(c, outcome, meta, list, calls) ==
    [cache |-> c, outcome |-> outcome, meta |-> meta, list |-> list,
     calls |-> calls]

Raise(c, exception, calls) == Result(c, exception, NoMetadata, None, calls)

\* Faulty variants of metadata: one that never looks at the expiry of the cached
\* entry, one that does not look for a tombstone in the remote's answer, and
\* one that returns the synthetic metadata of the root without caching it.
metadata_ignore_expiry(c, t, path, cache_read, resp) ==
    LET has == cache_read /\ path \in DOMAIN c
        fetch == ~has \/ c[path].metadata = NoMetadata
        calls == <<"files_get_metadata">>
        store(m) == Result(setitem(c, path, CacheItem(m, None, t)),
                           "ok", m, None, calls)
    IN  IF ~fetch
        THEN Result(c, "ok", c[path].metadata, None, <<>>)
        ELSE IF resp.tag = "BadInputError"
        THEN IF resp = RootUnsupported
             THEN store(FolderMetadata(Root))
             ELSE Raise(c, "BadInputError", calls)
        ELSE IF resp.tag = "ApiError"
        THEN IF resp.error = "not_found"
             THEN Raise(c, "ResourceNotFoundError", calls)
             ELSE Raise(c, "RemoteConnectionError", calls)
        ELSE IF resp.meta.kind = "deleted"
        THEN Raise(c, "ResourceNotFoundError", calls)
        ELSE store(resp.meta)

metadata_keep_tombstone(c, t, path, cache_read, resp) ==
    LET has == cache_read /\ path \in DOMAIN c
        fetch == \/ ~has
                 \/ c[path].metadata = NoMetadata
                 \/ expired(c[path], t)
        calls == <<"files_get_metadata">>
        store(m) == Result(setitem(c, path, CacheItem(m, None, t)),
                           "ok", m, None, calls)
    IN  IF ~fetch
        THEN Result(c, "ok", c[path].metadata, None, <<>>)
        ELSE IF resp.tag = "BadInputError"
        THEN IF resp = RootUnsupported
             THEN store(FolderMetadata(Root))
             ELSE Raise(c, "BadInputError", calls)
        ELSE IF resp.tag = "ApiError"
        THEN IF resp.error = "not_found"
             THEN Raise(c, "ResourceNotFoundError", calls)
             ELSE Raise(c, "RemoteConnectionError", calls)
        ELSE store(resp.meta)

metadata_root_not_cached(c, t, path, cache_read, resp) ==
    LET has == cache_read /\ path \in DOMAIN c
        fetch == \/ ~has
                 \/ c[path].metadata = NoMetadata
                 \/ expired(c[path], t)
        calls == <<"files_get_metadata">>
        store(m) == Result(setitem(c, path, CacheItem(m, None, t)),
                           "ok", m, None, calls)
    IN  IF ~fetch
        THEN Result(c, "ok", c[path].metadata, None, <<>>)
        ELSE IF resp.tag = "BadInputError"
        THEN IF resp = RootUnsupported
             THEN Result(c, "ok", FolderMetadata(Root), None, calls)
             ELSE Raise(c, "BadInputError", calls)
        ELSE IF resp.tag = "ApiError"
        THEN IF resp.error = "not_found"
             THEN Raise(c, "ResourceNotFoundError", calls)
             ELSE Raise(c, "RemoteConnectionError", calls)
        ELSE IF resp.meta.kind = "deleted"
        THEN Raise(c, "ResourceNotFoundError", calls)
        ELSE store(resp.meta)

metadata(c, t, path, cache_read, resp) ==
    LET has == cache_read /\ path \in DOMAIN c
        fetch == \/ ~has
                 \/ c[path].metadata = NoMetadata
                 \/ expired(c[path], t)
        calls == <<"files_get_metadata">>
        store(m) == Result(setitem(c, path, CacheItem(m, None, t)),
                           "ok", m, None, calls)
    IN  IF ~fetch
        THEN Result(c, "ok", c[path].metadata, None, <<>>)
        ELSE IF resp.tag = "BadInputError"
        THEN IF resp = RootUnsupported
             THEN store(FolderMetadata(Root))
             ELSE Raise(c, "BadInputError", calls)
        ELSE IF resp.tag = "ApiError"
        THEN IF resp.error = "not_found"
             THEN Raise(c, "ResourceNotFoundError", calls)
             ELSE Raise(c, "RemoteConnectionError", calls)
        ELSE IF resp.meta.kind = "deleted"
        THEN Raise(c, "ResourceNotFoundError", calls)
        ELSE store(resp.meta)

\* A faulty variant of child_names: tombstones are not skipped.
child_names_with_tombstones(entries) ==
    [i \in 1..Len(entries) |-> basename(entries[i].path)]

\* The loop over folder_list.entries: the names of the live entries, in order.
child_names(entries) ==
    LET live == SelectSeq(entries, LAMBDA e : e.kind # "deleted")
    IN  [i \in 1..Len(live) |-> basename(live[i].path)]

\* The loop over folder_list.entries: every live entry cached at its path.
RECURSIVE cache_entries(_, _, _)
cache_entries(c, entries, t) ==
    IF entries = <<>>
    THEN c
    ELSE cache_entries(
             IF Head(entries).kind = "deleted"
             THEN c
             ELSE setitem(c, Head(entries).path,
                          CacheItem(Head(entries), None, t)),
             Tail(entries), t)

\* A faulty variant of update: only a children list that is None is fetched again.
update_unless_listed(c, t, path) ==
    IF path \in DOMAIN c
    THEN expired(c[path], t) \/ c[path].children = None
    ELSE TRUE

\* children: the update flag, set for no item, an expired item, and an item
\* whose children are None or the empty list (not item.children).
update(c, t, path) ==
    IF path \in DOMAIN c
    THEN \/ expired(c[path], t)
         \/ c[path].children = None
         \/ c[path].children = Some(<<>>)
    ELSE TRUE

\* Faulty variants of children: one that tells a remote not-found from the
\* other ApiErrors as metadata does, one that retries the listing after any
\* BadInputError, and one that lists whatever is no tombstone.
children_not_found(c, t, path, mresp, lresp, lresp2) ==
    LET has == path \in DOMAIN c
        invalid == has /\ ~expired(c[path], t)
                       /\ c[path].metadata.kind # "folder"
        m1 == <<"files_get_metadata">>
        m2 == <<"files_get_metadata", "files_list_folder">>
        m3 == <<"files_get_metadata", "files_list_folder", "files_list_folder">>
        md == IF mresp.tag = "ok" THEN mresp.meta ELSE FolderMetadata(Root)
        listed(entries, calls) ==
            Result(setitem(cache_entries(c, entries, t), path,
                           CacheItem(md, Some(child_names(entries)), t)),
                   "ok", NoMetadata, Some(child_names(entries)), calls)
    IN  IF invalid
        THEN Raise(c, "ResourceInvalidError", <<>>)
        ELSE IF ~update(c, t, path)
        THEN Result(c, "ok", NoMetadata, c[path].children, <<>>)
        ELSE IF mresp.tag = "BadInputError" /\ mresp # RootUnsupported
        THEN Raise(c, "BadInputError", m1)
        ELSE IF mresp.tag = "ApiError"
        THEN IF mresp.error = "not_found"
             THEN Raise(c, "ResourceNotFoundError", m1)
             ELSE Raise(c, "RemoteConnectionError", m1)
        ELSE IF md.kind # "folder"
        THEN Raise(c, "ResourceInvalidError", m1)
        ELSE IF lresp = RootAsEmptyString
        THEN IF lresp2.tag = "ApiError"
             THEN Raise(c, "RemoteConnectionError", m3)
             ELSE IF lresp2.tag = "BadInputError"
             THEN Raise(c, "BadInputError", m3)
             ELSE listed(lresp2.entries, m3)
        ELSE IF lresp.tag = "BadInputError"
        THEN Raise(c, "BadInputError", m2)
        ELSE IF lresp.tag = "ApiError"
        THEN Raise(c, "RemoteConnectionError", m2)
        ELSE listed(lresp.entries, m2)

children_retry_any(c, t, path, mresp, lresp, lresp2) ==
    LET has == path \in DOMAIN c
        invalid == has /\ ~expired(c[path], t)
                       /\ c[path].metadata.kind # "folder"
        m1 == <<"files_get_metadata">>
        m2 == <<"files_get_metadata", "files_list_folder">>
        m3 == <<"files_get_metadata", "files_list_folder", "files_list_folder">>
        md == IF mresp.tag = "ok" THEN mresp.meta ELSE FolderMetadata(Root)
        listed(entries, calls) ==
            Result(setitem(cache_entries(c, entries, t), path,
                           CacheItem(md, Some(child_names(entries)), t)),
                   "ok", NoMetadata, Some(child_names(entries)), calls)
    IN  IF invalid
        THEN Raise(c, "ResourceInvalidError", <<>>)
        ELSE IF ~update(c, t, path)
        THEN Result(c, "ok", NoMetadata, c[path].children, <<>>)
        ELSE IF mresp.tag = "BadInputError" /\ mresp # RootUnsupported
        THEN Raise(c, "BadInputError", m1)
        ELSE IF mresp.tag = "ApiError"
        THEN Raise(c, "RemoteConnectionError", m1)
        ELSE IF md.kind # "folder"
        THEN Raise(c, "ResourceInvalidError", m1)
        ELSE IF lresp.tag = "BadInputError"
        THEN IF lresp2.tag = "ApiError"
             THEN Raise(c, "RemoteConnectionError", m3)
             ELSE IF lresp2.tag = "BadInputError"
             THEN Raise(c, "BadInputError", m3)
             ELSE listed(lresp2.entries, m3)
        ELSE IF lresp.tag = "BadInputError"
        THEN Raise(c, "BadInputError", m2)
        ELSE IF lresp.tag = "ApiError"
        THEN Raise(c, "RemoteConnectionError", m2)
        ELSE listed(lresp.entries, m2)

children_list_any(c, t, path, mresp, lresp, lresp2) ==
    LET has == path \in DOMAIN c
        invalid == has /\ ~expired(c[path], t)
                       /\ c[path].metadata.kind # "folder"
        m1 == <<"files_get_metadata">>
        m2 == <<"files_get_metadata", "files_list_folder">>
        m3 == <<"files_get_metadata", "files_list_folder", "files_list_folder">>
        md == IF mresp.tag = "ok" THEN mresp.meta ELSE FolderMetadata(Root)
        listed(entries, calls) ==
            Result(setitem(cache_entries(c, entries, t), path,
                           CacheItem(md, Some(child_names(entries)), t)),
                   "ok", NoMetadata, Some(child_names(entries)), calls)
    IN  IF invalid
        THEN Raise(c, "ResourceInvalidError", <<>>)
        ELSE IF ~update(c, t, path)
        THEN Result(c, "ok", NoMetadata, c[path].children, <<>>)
        ELSE IF mresp.tag = "BadInputError" /\ mresp # RootUnsupported
        THEN Raise(c, "BadInputError", m1)
        ELSE IF mresp.tag = "ApiError"
        THEN Raise(c, "RemoteConnectionError", m1)
        ELSE IF md.kind = "deleted"
        THEN Raise(c, "ResourceInvalidError", m1)
        ELSE IF lresp = RootAsEmptyString
        THEN IF lresp2.tag = "ApiError"
             THEN Raise(c, "RemoteConnectionError", m3)
             ELSE IF lresp2.tag = "BadInputError"
             THEN Raise(c, "BadInputError", m3)
             ELSE listed(lresp2.entries, m3)
        ELSE IF lresp.tag = "BadInputError"
        THEN Raise(c, "BadInputError", m2)
        ELSE IF lresp.tag = "ApiError"
        THEN Raise(c, "RemoteConnectionError", m2)
        ELSE listed(lresp.entries, m2)

children(c, t, path, mresp, lresp, lresp2) ==
    LET has == path \in DOMAIN c
        invalid == has /\ ~expired(c[path], t)
                       /\ c[path].metadata.kind # "folder"
        m1 == <<"files_get_metadata">>
        m2 == <<"files_get_metadata", "files_list_folder">>
        m3 == <<"files_get_metadata", "files_list_folder", "files_list_folder">>
        md == IF mresp.tag = "ok" THEN mresp.meta ELSE FolderMetadata(Root)
        listed(entries, calls) ==
            Result(setitem(cache_entries(c, entries, t), path,
                           CacheItem(md, Some(child_names(entries)), t)),
                   "ok", NoMetadata, Some(child_names(entries)), calls)
    IN  IF invalid
        THEN Raise(c, "ResourceInvalidError", <<>>)
        ELSE IF ~update(c, t, path)
        THEN Result(c, "ok", NoMetadata, c[path].children, <<>>)
        ELSE IF mresp.tag = "BadInputError" /\ mresp # RootUnsupported
        THEN Raise(c, "BadInputError", m1)
        ELSE IF mresp.tag = "ApiError"
        THEN Raise(c, "RemoteConnectionError", m1)
        ELSE IF md.kind # "folder"
        THEN Raise(c, "ResourceInvalidError", m1)
        ELSE IF lresp = RootAsEmptyString
        THEN IF lresp2.tag = "ApiError"
             THEN Raise(c, "RemoteConnectionError", m3)
             ELSE IF lresp2.tag = "BadInputError"
             THEN Raise(c, "BadInputError", m3)
             ELSE listed(lresp2.entries, m3)
        ELSE IF lresp.tag = "BadInputError"
        THEN Raise(c, "BadInputError", m2)
        ELSE IF lresp.tag = "ApiError"
        THEN Raise(c, "RemoteConnectionError", m2)
        ELSE listed(lresp.entries, m2)

\* A faulty variant of files_create_folder: the new entry is stored without
\* being linked into its parent.
files_create_folder_unlinked(c, t, path, resp) ==
    LET calls == <<"files_create_folder">>
    IN  IF resp.tag = "ApiError"
        THEN IF resp.error = "conflict"
             THEN Raise(c, "DestinationExistsError", calls)
             ELSE Raise(c, "RemoteConnectionError", calls)
        ELSE IF resp.tag = "BadInputError"
        THEN Raise(c, "BadInputError", calls)
        ELSE Result(setitem(c, path, CacheItem(resp.meta, None, t)),
                    "ok", NoMetadata, None, calls)

files_create_folder(c, t, path, resp) ==
    LET calls == <<"files_create_folder">>
    IN  IF resp.tag = "ApiError"
        THEN IF resp.error = "conflict"
             THEN Raise(c, "DestinationExistsError", calls)
             ELSE Raise(c, "RemoteConnectionError", calls)
        ELSE IF resp.tag = "BadInputError"
        THEN Raise(c, "BadInputError", calls)
        ELSE Result(DropboxCache_set(c, path, resp.meta, t),
                    "ok", NoMetadata, None, calls)

\* A faulty variant of relocation_error: every failed lookup of the source
\* counts as not found.
relocation_error_any_lookup(c, resp, calls) ==
    IF resp.tag = "ApiError"
    THEN IF resp.error \in {"from_lookup_not_found", "from_lookup_other"}
         THEN Raise(c, "ResourceNotFoundError", calls)
         ELSE IF resp.error = "to_conflict"
         THEN Raise(c, "DestinationExistsError", calls)
         ELSE Raise(c, "RemoteConnectionError", calls)
    ELSE Raise(c, "BadInputError", calls)

\* The except clause files_copy and files_move share.
relocation_error(c, resp, calls) ==
    IF resp.tag = "ApiError"
    THEN IF resp.error = "from_lookup_not_found"
         THEN Raise(c, "ResourceNotFoundError", calls)
         ELSE IF resp.error = "to_conflict"
         THEN Raise(c, "DestinationExistsError", calls)
         ELSE Raise(c, "RemoteConnectionError", calls)
    ELSE Raise(c, "BadInputError", calls)

files_copy(c, t, src, dst, resp) ==
    LET calls == <<"files_copy">>
    IN  IF resp.tag # "ok"
        THEN relocation_error(c, resp, calls)
        ELSE Result(DropboxCache_set(c, dst, resp.meta, t),
                    "ok", NoMetadata, None, calls)

\* files_move with the source invalidated before the remote call is made.
\* Faulty variants of files_move: one that leaves the source in the cache, as
\* files_copy does, and one that invalidates the source before the remote
\* call is made.
files_move_keep_source(c, t, src, dst, resp) ==
    LET calls == <<"files_move">>
    IN  IF resp.tag # "ok"
        THEN relocation_error(c, resp, calls)
        ELSE Result(DropboxCache_set(c, dst, resp.meta, t),
                    "ok", NoMetadata, None, calls)

files_move_pop_first(c, t, src, dst, resp) ==
    LET calls == <<"files_move">>
    IN  IF resp.tag # "ok"
        THEN relocation_error(DropboxCache_pop(c, src), resp, calls)
        ELSE Result(DropboxCache_set(DropboxCache_pop(c, src), dst, resp.meta, t),
                    "ok", NoMetadata, None, calls)

files_move(c, t, src, dst, resp) ==
    LET calls == <<"files_move">>
    IN  IF resp.tag # "ok"
        THEN relocation_error(c, resp, calls)
        ELSE Result(DropboxCache_set(DropboxCache_pop(c, src), dst, resp.meta, t),
                    "ok", NoMetadata, None, calls)

files_delete(c, t, path, resp) ==
    LET calls == <<"files_delete">>
    IN  IF resp.tag = "ApiError"
        THEN IF resp.error = "path_lookup_not_found"
             THEN Raise(c, "ResourceNotFoundError", calls)
             ELSE Raise(c, "RemoteConnectionError", calls)
        ELSE IF resp.tag = "BadInputError"
        THEN Raise(c, "BadInputError", calls)
        ELSE Result(DropboxCache_pop(c, path), "ok", NoMetadata, None, calls)

\* A faulty variant of files_upload: the uploaded path is invalidated, not its parent.
files_upload_pop_path(c, t, path, resp) ==
    LET calls == <<"files_upload">>
    IN  IF resp.tag = "ApiError"
        THEN Raise(c, "RemoteConnectionError", calls)
        ELSE IF resp.tag = "BadInputError"
        THEN Raise(c, "BadInputError", calls)
        ELSE Result(DropboxCache_pop(c, path), "ok", NoMetadata, None, calls)

\* A faulty variant of files_upload: the parent is invalidated whether or
\* not the upload succeeds.
files_upload_pop_always(c, t, path, resp) ==
    LET calls == <<"files_upload">>
    IN  IF resp.tag = "ApiError"
        THEN Raise(DropboxCache_pop(c, dirname(path)),
                   "RemoteConnectionError", calls)
        ELSE IF resp.tag = "BadInputError"
        THEN Raise(DropboxCache_pop(c, dirname(path)), "BadInputError", calls)
        ELSE Result(DropboxCache_pop(c, dirname(path)),
                    "ok", NoMetadata, None, calls)

files_upload(c, t, path, resp) ==
    LET calls == <<"files_upload">>
    IN  IF resp.tag = "ApiError"
        THEN Raise(c, "RemoteConnectionError", calls)
        ELSE IF resp.tag = "BadInputError"
        THEN Raise(c, "BadInputError", calls)
        ELSE Result(DropboxCache_pop(c, dirname(path)),
                    "ok", NoMetadata, None, calls)

\* SpooledWriter.close: one upload of the spooled contents to self.name.
SpooledWriter_close(c, t, name, resp) == files_upload(c, t, name, resp)

\* The size and the server_modified of the FileMetadata of the model; a
\* FolderMetadata has neither attribute.
FileSize == 1

ServerModified == 1

\* metadata_to_info: size and modified_time default to 0 and None, and the
\* path is the name, which is '/' for the synthetic metadata of the root.
metadata_to_info(md) ==
    [size |-> IF md.kind = "file" THEN FileSize ELSE 0,
     isdir |-> md.kind = "folder",
     isfile |-> md.kind # "folder",
     modified_time |-> IF md.kind = "file" THEN Some(ServerModified) ELSE None,
     path |-> IF md.path = Root THEN "/" ELSE basename(md.path)]

----------------------------------------------------------------------------
(* The remote's answers to the mutating calls.  The remote creates,        *)
(* copies, moves, deletes and uploads below the root only, and relocates   *)
(* between two paths neither of which lies inside the other.               *)

IsPrefix(p, q) == Len(p) <= Len(q) /\ SubSeq(q, 1, Len(p)) = p

NonRoot == Paths \ {Root}

CreateFolderResponses(path) ==
    {ApiError("conflict"), ApiError("other"), Malformed}
        \cup (IF path # Root THEN {Ok(FolderMetadata(path))} ELSE {})

RelocationResponses(src, dst) ==
    {ApiError("from_lookup_not_found"), ApiError("from_lookup_other"),
     ApiError("to_conflict"), ApiError("other"), Malformed}
        \cup (IF ~IsPrefix(src, dst) /\ ~IsPrefix(dst, src)
              THEN {Ok(Metadata(k, dst)) : k \in LiveKinds}
              ELSE {})

DeleteResponses(path) ==
    {ApiError("path_lookup_not_found"), ApiError("other"), Malformed}
        \cup (IF path # Root THEN {Ok(Metadata("deleted", path))} ELSE {})

UploadResponses(path) ==
    {ApiError("other"), Malformed}
        \cup (IF path # Root THEN {Ok(Metadata("file", path))} ELSE {})

----------------------------------------------------------------------------
(* The remote's files and the download streams.  A file is its sequence    *)
(* of bytes.  response.raw is a sequential stream over the bytes a         *)
(* download found: off bytes of it have been consumed, and the HTTP        *)
(* library closes it once the last byte has been read.                     *)

Files == {<<"a">>, <<"b">>}

\* The bytes of the file name of length n a run starts from: all distinct,
\* and different for the two files.
Content(name, n) == [i \in 1..n |-> (IF name = <<"a">> THEN 10 ELSE 20) + i]

Min(a, b) == IF a <= b THEN a ELSE b

\* The answer of files_download(name): the response with the file's bytes.
Downloaded(content) == [tag |-> "ok", content |-> content]

DownloadResponses(rem, name) == {Downloaded(rem[name]), ApiError("other")}

\* response.raw of a download that has just begun.
Raw(content) == [content |-> content, off |-> 0, closed |-> FALSE, closes |-> 0]

\* The bytes of the stream not consumed yet.
Rest(s) == SubSeq(s.content, s.off + 1, Len(s.content))

\* self.r.read(amt): at most amt bytes, everything left for None and for a
\* negative amt, nothing from a closed stream.
raw_read(s, amt) ==
    LET n == IF amt = None THEN Len(Rest(s))
             ELSE IF amt[1] < 0 THEN Len(Rest(s))
             ELSE Min(amt[1], Len(Rest(s)))
        data == IF s.closed THEN <<>> ELSE SubSeq(s.content, s.off + 1, s.off + n)
        off == s.off + Len(data)
    IN  [stream |-> [s EXCEPT !.off = off,
                              !.closed = s.closed \/ off = Len(s.content)],
         data |-> data]

\* self.r.close()
raw_close(s) == [s EXCEPT !.closed = TRUE, !.closes = s.closes + 1]

\* What a read of a negative amount does: it reads to the end of the
\* stream, or the library rejects the amount.
NegativeReads == {"drain", "ValueError"}

----------------------------------------------------------------------------
(* ChunkedReader.                                                          *)

NoReader ==
    [state |-> "none", name |-> Root, r |-> 0, bytes |-> 0, closed |-> FALSE,
     pos |-> 0, seek_pos |-> 0]

\* What a call on the reader yields: the reader and the streams afterwards,
\* the bytes returned, "ok" or the exception raised, and the remote calls.
ReaderResult(rd, st, data, outcome, calls) ==
    [reader |-> rd, streams |-> st, data |-> data, outcome |-> outcome,
     calls |-> calls]

\* ChunkedReader(client, name)
ChunkedReader_init(st, name, resp) ==
    IF resp.tag = "ApiError"
    THEN ReaderResult(NoReader, st, <<>>, "RemoteConnectionError",
                      <<"files_download">>)
    ELSE ReaderResult([state |-> "open", name |-> name, r |-> Len(st) + 1,
                       bytes |-> Len(resp.content), closed |-> FALSE,
                       pos |-> 0, seek_pos |-> 0],
                      Append(st, Raw(resp.content)), <<>>, "ok",
                      <<"files_download">>)

\* seek(offset, whence); self.size, which whence 2 reads, is an attribute of
\* neither the reader nor the stream.
ChunkedReader_seek(rd, st, offset, whence) ==
    IF whence = 0
    THEN ReaderResult([rd EXCEPT !.seek_pos = offset], st, <<>>, "ok", <<>>)
    ELSE IF whence = 1
    THEN ReaderResult([rd EXCEPT !.seek_pos = rd.seek_pos + offset], st, <<>>,
                      "ok", <<>>)
    ELSE ReaderResult(rd, st, <<>>, "AttributeError", <<>>)

\* A faulty variant of close: the stream is closed whether or not it is
\* closed already.
ChunkedReader_close_unguarded(rd, st) ==
    ReaderResult([rd EXCEPT !.closed = TRUE],
                 [st EXCEPT ![rd.r] = raw_close(st[rd.r])],
                 <<>>, "ok", <<>>)

\* close()
ChunkedReader_close(rd, st) ==
    ReaderResult([rd EXCEPT !.closed = TRUE],
                 IF st[rd.r].closed THEN st
                 ELSE [st EXCEPT ![rd.r] = raw_close(st[rd.r])],
                 <<>>, "ok", <<>>)

\* The end of read(amt): the position pointers are updated and amt bytes
\* are read from the stream.
read_amt(rd, st, amt, calls) ==
    LET p == IF amt # None /\ amt[1] # 0 THEN rd.seek_pos + amt[1] ELSE rd.bytes
        rr == raw_read(st[rd.r], amt)
    IN  ReaderResult([rd EXCEPT !.pos = p, !.seek_pos = p],
                     [st EXCEPT ![rd.r] = rr.stream], rr.data, "ok", calls)

\* A faulty variant of read: the new download of a backward seek is not read
\* forward to seek_pos.
ChunkedReader_read_no_discard(rd, st, amt, resp, neg) ==
    IF st[rd.r].closed
    THEN ChunkedReader_close(rd, st)
    ELSE IF rd.seek_pos < rd.pos
    THEN LET released == [st EXCEPT ![rd.r] = raw_close(st[rd.r])]
             calls == <<"files_download">>
         IN  IF resp.tag = "ApiError"
             THEN ReaderResult(rd, released, <<>>, "ApiError", calls)
             ELSE read_amt([rd EXCEPT !.r = Len(st) + 1, !.pos = rd.seek_pos],
                           Append(released, Raw(resp.content)),
                           amt, calls)
    ELSE IF rd.seek_pos > rd.pos
    THEN IF neg = "ValueError"
         THEN ReaderResult(rd, st, <<>>, "ValueError", <<>>)
         ELSE read_amt([rd EXCEPT !.pos = rd.seek_pos],
                       [st EXCEPT ![rd.r] =
                           raw_read(st[rd.r], Some(rd.pos - rd.seek_pos)).stream],
                       amt, <<>>)
    ELSE read_amt(rd, st, amt, <<>>)

\* read(amt); resp answers the download of a backward seek and neg says what
\* the read of the negative amount of a forward seek does.
ChunkedReader_read(rd, st, amt, resp, neg) ==
    IF st[rd.r].closed
    THEN ChunkedReader_close(rd, st)
    ELSE IF rd.seek_pos < rd.pos
    THEN LET released == [st EXCEPT ![rd.r] = raw_close(st[rd.r])]
             calls == <<"files_download">>
         IN  IF resp.tag = "ApiError"
             THEN ReaderResult(rd, released, <<>>, "ApiError", calls)
             ELSE read_amt([rd EXCEPT !.r = Len(st) + 1, !.pos = rd.seek_pos],
                           Append(released,
                                  raw_read(Raw(resp.content),
                                           Some(rd.seek_pos)).stream),
                           amt, calls)
    ELSE IF rd.seek_pos > rd.pos
    THEN IF neg = "ValueError"
         THEN ReaderResult(rd, st, <<>>, "ValueError", <<>>)
         ELSE read_amt([rd EXCEPT !.pos = rd.seek_pos],
                       [st EXCEPT ![rd.r] =
                           raw_read(st[rd.r], Some(rd.pos - rd.seek_pos)).stream],
                       amt, <<>>)
    ELSE read_amt(rd, st, amt, <<>>)

----------------------------------------------------------------------------
(* SpooledWriter.  temp is the contents of the backing store the writer    *)
(* writes to, a StringIO in memory or a temporary file on disk; its        *)
(* position is its end after every write.                                  *)

NoWriter ==
    [state |-> "none", name |-> Root, bytes |-> 0, temp |-> <<>>,
     backing |-> "memory", stores |-> 0, released |-> FALSE]

\* SpooledWriter(client, name)
SpooledWriter_init(name) == [NoWriter EXCEPT !.state = "open", !.name = name]

\* shutil.copyfileobj(src, dst) with src at position from: what src holds
\* from there on is appended to dst.
copyfileobj(src, from, dst) == dst \o SubSeq(src, from + 1, Len(src))

\* A faulty variant of write: the buffer is not rewound before it is copied.
SpooledWriter_write_no_rewind(w, data) ==
    LET switch == Len(w.temp) + Len(data) >= MaxBuffer
        temp == IF switch THEN copyfileobj(w.temp, Len(w.temp), <<>>) ELSE w.temp
    IN  [w EXCEPT !.temp = temp \o data,
                  !.bytes = w.bytes + Len(data),
                  !.backing = IF switch THEN "disk" ELSE w.backing,
                  !.stores = IF switch THEN w.stores + 1 ELSE w.stores]

\* A faulty variant of write: the switch is made only once max_buffer is
\* exceeded.
SpooledWriter_write_late(w, data) ==
    LET switch == Len(w.temp) + Len(data) > MaxBuffer
        temp == IF switch THEN copyfileobj(w.temp, 0, <<>>) ELSE w.temp
    IN  [w EXCEPT !.temp = temp \o data,
                  !.bytes = w.bytes + Len(data),
                  !.backing = IF switch THEN "disk" ELSE w.backing,
                  !.stores = IF switch THEN w.stores + 1 ELSE w.stores]

\* write(data)
SpooledWriter_write(w, data) ==
    LET switch == Len(w.temp) + Len(data) >= MaxBuffer
        temp == IF switch THEN copyfileobj(w.temp, 0, <<>>) ELSE w.temp
    IN  [w EXCEPT !.temp = temp \o data,
                  !.bytes = w.bytes + Len(data),
                  !.backing = IF switch THEN "disk" ELSE w.backing,
                  !.stores = IF switch THEN w.stores + 1 ELSE w.stores]

\* The call files_upload(f, path, mode) the writer makes.
Upload(data, path, mode) == [data |-> data, path |-> path, mode |-> mode]

\* close() on the side of the writer: the store is rewound and read, one
\* upload is made, and the store is closed once the upload has returned.
SpooledWriter_upload(w, resp) ==
    [writer |-> [w EXCEPT !.state = "closed", !.released = resp.tag = "ok"],
     upload |-> Upload(SubSeq(w.temp, 1, Len(w.temp)), w.name, "overwrite"),
     outcome |-> IF resp.tag = "ok" THEN "ok"
                 ELSE IF resp.tag = "ApiError" THEN "RemoteConnectionError"
                 ELSE "BadInputError"]

\* What the write calls of a run write.
Data == UNION {[1..n -> {7, 8}] : n \in 0..MaxData}

\* __next__(): read() with no amount; the iteration ends when what read()
\* returned is None, and read() returns a string on each of its paths.
ChunkedReader_next(rd, st, resp, neg) ==
    LET r == ChunkedReader_read(rd, st, None, resp, neg)
        data == IF r.outcome = "ok" THEN Some(r.data) ELSE None
    IN  IF r.outcome = "ok" /\ data = None
        THEN ReaderResult(r.reader, r.streams, <<>>, "StopIteration", r.calls)
        ELSE r

\* One call on the reader.
Call(op, amt, offset, whence) ==
    [op |-> op, amt |-> amt, offset |-> offset, whence |-> whence]

ReadCall(amt) == Call("read", amt, 0, 0)

SeekCall(offset, whence) == Call("seek", None, offset, whence)

CloseCall == Call("close", None, 0, 0)

NextCall == Call("next", None, 0, 0)

\* No call has been made on a writer or a reader.
NoIO ==
    [call |-> Call("init", None, 0, 0), reader |-> NoReader, streams |-> <<>>,
     writer |-> NoWriter, data |-> <<>>, outcome |-> "ok", calls |-> <<>>,
     hist |-> <<>>, wrote |-> <<>>, written |-> <<>>, writes |-> 0,
     uploads |-> <<>>, uploaded |-> FALSE, after_upload |-> FALSE]

----------------------------------------------------------------------------
(* The threads that call one DropboxFS.  A call is the sequence of its     *)
(* accesses to the cache, one step each: the get of metadata() and of      *)
(* children(), and the two statements of DropboxCache.set and of           *)
(* DropboxCache.pop, the item stored or removed and then the parent's      *)
(* children list.  The remote answers between the steps.                   *)

Callers == 1..MaxCallers

\* A CacheItem that stands for no item.
NoItem == CacheItem(NoMetadata, None, 0)

Instr(kind, path, item, cache_read) ==
    [kind |-> kind, path |-> path, item |-> item, cache_read |-> cache_read]

\* item = self.cache.get(path) of metadata() and of children()
GetForMetadata(path, cache_read) == Instr("get_metadata", path, NoItem, cache_read)

GetForChildren(path) == Instr("get_children", path, NoItem, TRUE)

\* self.cache[path] = item
SetItem(path, item) == Instr("setitem", path, item, FALSE)

\* The end of DropboxCache.set(path, metadata): the parent's add_child.
AddChild(path) == Instr("add_child", path, NoItem, FALSE)

\* UserDict.pop(self, path, default)
DelItem(path) == Instr("delitem", path, NoItem, FALSE)

\* The end of DropboxCache.pop(path): the parent's del_child.
DelChild(path) == Instr("del_child", path, NoItem, FALSE)

\* The lock of synchronize is released.
Release == Instr("release", Root, NoItem, FALSE)

\* DropboxCache.set(path, metadata) and DropboxCache.pop(path), step by step.
set_steps(path, md, t) ==
    <<SetItem(path, CacheItem(md, None, t)), AddChild(path)>>

pop_steps(path) == <<DelItem(path), DelChild(path)>>

\* The cache after one step.
exec(c, i) ==
    IF i.kind = "setitem" THEN setitem(c, i.path, i.item)
    ELSE IF i.kind = "delitem" THEN delitem(c, i.path)
    ELSE IF i.kind = "add_child"
    THEN IF dirname(i.path) \in DOMAIN c
         THEN setitem(c, dirname(i.path),
                      add_child(c[dirname(i.path)], basename(i.path)))
         ELSE c
    ELSE IF i.kind = "del_child"
    THEN IF dirname(i.path) \in DOMAIN c
         THEN setitem(c, dirname(i.path),
                      del_child(c[dirname(i.path)], basename(i.path)))
         ELSE c
    ELSE c

\* Whether a step reads the cache, writes it, or leaves it alone; metadata()
\* does not look into the cache unless cache_read is set.
access(i) ==
    IF i.kind \in {"get_metadata", "get_children"}
    THEN IF i.cache_read THEN "read" ELSE "none"
    ELSE IF i.kind = "release" THEN "none"
    ELSE "write"

\* The stores of the loop over folder_list.entries, one per live entry.
entry_steps(entries, t) ==
    LET live == SelectSeq(entries, LAMBDA e : e.kind # "deleted")
    IN  [k \in 1..Len(live) |-> SetItem(live[k].path, CacheItem(live[k], None, t))]

\* A caller that is in no call.
Idle == [op |-> "idle", todo |-> <<>>]

\* No thread has called: the lock is free and nobody has touched the cache.
NoCallers ==
    [lock |-> 0, at |-> [c \in Callers |-> Idle],
     made |-> [c \in Callers |-> 0], by |-> 0, access |-> "none",
     got |-> [c \in Callers |-> Release], old |-> [c \in Callers |-> FALSE]]

----------------------------------------------------------------------------
(* The state machine of one client.  last records the latest operation:    *)
(* its arguments, the cache and the time it started from, the remote's     *)
(* answers to the calls it made, and what it returned or raised.           *)

LastOp(op, path, dst, cache_read, script, r) ==
    [op |-> op, path |-> path, dst |-> dst, cache_read |-> cache_read,
     before |-> cache, time |-> now,
     reply |-> SubSeq(script, 1, Len(r.calls)),
     outcome |-> r.outcome, meta |-> r.meta, list |-> r.list,
     calls |-> r.calls]

\* No operation has been performed.
NoOp ==
    [op |-> "init", path |-> Root, dst |-> Root, cache_read |-> FALSE,
     before |-> EmptyCache, time |-> 0, reply |-> <<>>,
     outcome |-> "ok", meta |-> NoMetadata, list |-> None,
     calls |-> <<>>]

\* A client just constructed: its cache is empty, and there is no writer,
\* no reader and no calling thread.
Init ==
    /\ cache = EmptyCache
    /\ now = 0
    /\ last = NoOp
    /\ ops = 0
    /\ remote = [name \in Files |-> <<>>]
    /\ writer = None
    /\ reader = None
    /\ streams = <<>>
    /\ io = None
    /\ callers = None

\* The effect of an operation with result r.
Done(op, path, dst, cache_read, script, r) ==
    /\ cache' = r.cache
    /\ last' = LastOp(op, path, dst, cache_read, script, r)
    /\ ops' = ops + 1
    /\ UNCHANGED now
    /\ UNCHANGED fileVars
    /\ UNCHANGED callers

\* What stands for the answer to a call that is not made.
Unasked == ApiError("other")

\* The remote answers files_get_metadata only if metadata() asks.
ClientMetadata ==
    /\ ops < MaxOps
    /\ \E path \in Paths, cache_read \in BOOLEAN :
         \E resp \in IF metadata(cache, now, path, cache_read, Unasked).calls = <<>>
                      THEN {Unasked}
                      ELSE MetadataResponses(path) :
            Done("metadata", path, path, cache_read, <<resp>>,
                 metadata(cache, now, path, cache_read, resp))

\* The remote's answers to the calls of one children(path): the listing is
\* asked for only once the metadata says folder, and the retry only once the
\* listing is rejected for the root path's syntax.
Scripts(path) ==
    LET folder == {mresp \in MetadataResponses(path) :
                      mresp = RootUnsupported \/ mresp = Ok(FolderMetadata(path))}
    IN  {<<mresp, Unasked, Unasked>> : mresp \in MetadataResponses(path) \ folder}
            \cup {<<mresp, lresp, Unasked>> :
                      mresp \in folder,
                      lresp \in ListResponses(path) \ {RootAsEmptyString}}
            \cup {<<mresp, lresp, lresp2>> :
                      mresp \in folder,
                      lresp \in ListResponses(path) \cap {RootAsEmptyString},
                      lresp2 \in RetryResponses(path)}

\* The scripts of every path.
ScriptsOf == [path \in Paths |-> Scripts(path)]

\* The remote answers only if children() asks.
ClientChildren ==
    /\ ops < MaxOps
    /\ \E path \in Paths :
         \E s \in IF children(cache, now, path, Unasked, Unasked, Unasked).calls
                          = <<>>
                   THEN {<<Unasked, Unasked, Unasked>>}
                   ELSE ScriptsOf[path] :
            Done("children", path, path, TRUE, s,
                 children(cache, now, path, s[1], s[2], s[3]))

ClientCreateFolder ==
    /\ ops < MaxOps
    /\ \E path \in Paths :
         \E resp \in CreateFolderResponses(path) :
            Done("files_create_folder", path, path, FALSE, <<resp>>,
                 files_create_folder(cache, now, path, resp))

ClientCopy ==
    /\ ops < MaxOps
    /\ \E src \in NonRoot : \E dst \in NonRoot \ {src} :
         \E resp \in RelocationResponses(src, dst) :
            Done("files_copy", src, dst, FALSE, <<resp>>,
                 files_copy(cache, now, src, dst, resp))

ClientMove ==
    /\ ops < MaxOps
    /\ \E src \in NonRoot : \E dst \in NonRoot \ {src} :
         \E resp \in RelocationResponses(src, dst) :
            Done("files_move", src, dst, FALSE, <<resp>>,
                 files_move(cache, now, src, dst, resp))

ClientDelete ==
    /\ ops < MaxOps
    /\ \E path \in Paths :
         \E resp \in DeleteResponses(path) :
            Done("files_delete", path, path, FALSE, <<resp>>,
                 files_delete(cache, now, path, resp))

ClientUpload ==
    /\ ops < MaxOps
    /\ \E path \in Paths :
         \E resp \in UploadResponses(path) :
            Done("files_upload", path, path, FALSE, <<resp>>,
                 files_upload(cache, now, path, resp))

WriterClose ==
    /\ ops < MaxOps
    /\ \E name \in Paths :
         \E resp \in UploadResponses(name) :
            Done("close", name, name, FALSE, <<resp>>,
                 SpooledWriter_close(cache, now, name, resp))

\* The clock readings of a run: the start, one second less than the time to
\* live later, and the time to live later.
Times == {0, CACHE_TTL - 1, CACHE_TTL}

\* Time passes between two operations.
Tick ==
    /\ ops < MaxOps
    /\ \E t \in Times : t > now /\ now' = t
    /\ UNCHANGED <<cache, last, ops>>
    /\ UNCHANGED fileVars
    /\ UNCHANGED callers

Next ==
    \/ ClientMetadata
    \/ ClientChildren
    \/ ClientCreateFolder
    \/ ClientCopy
    \/ ClientMove
    \/ ClientDelete
    \/ ClientUpload
    \/ WriterClose
    \/ Tick

Spec == Init /\ [][Next]_vars

----------------------------------------------------------------------------
(* The state machine of one DropboxCache used on its own: any sequence of  *)
(* set and pop calls.                                                      *)

StoreSet ==
    /\ ops < MaxStoreOps
    /\ \E path \in Paths, kind \in LiveKinds :
         Done("set", path, path, FALSE, <<>>,
              Result(DropboxCache_set(cache, path, Metadata(kind, path), now),
                     "ok", NoMetadata, None, <<>>))

StorePop ==
    /\ ops < MaxStoreOps
    /\ \E path \in Paths :
         Done("pop", path, path, FALSE, <<>>,
              Result(DropboxCache_pop(cache, path), "ok", NoMetadata, None, <<>>))

NextStore ==
    \/ StoreSet
    \/ StorePop

SpecStore == Init /\ [][NextStore]_vars

----------------------------------------------------------------------------
(* The state machines of one reader and of one writer.  io records the     *)
(* latest call: its arguments, the reader and the streams it started from, *)
(* what it returned or raised and the remote calls it made; and the        *)
(* history: the calls made on the reader since it was opened, the data     *)
(* written to the writer, the uploads issued, and whether the reader was   *)
(* opened on what the writer had uploaded.                                 *)

\* The files of a run start with the same number of bytes; no thread calls
\* a DropboxFS.
InitFiles ==
    /\ cache = EmptyCache
    /\ now = 0
    /\ last = NoOp
    /\ ops = 0
    /\ \E n \in 0..MaxFile : remote = [name \in Files |-> Content(name, n)]
    /\ writer = NoWriter
    /\ reader = NoReader
    /\ streams = <<>>
    /\ io = NoIO
    /\ callers = None

\* The cache after a listdir('/') that found a folder and a file.
ListedRoot ==
    children(EmptyCache, 0, Root, Ok(FolderMetadata(Root)),
             OkList(<<FolderMetadata(<<"a">>), Metadata("file", <<"b">>)>>),
             Unasked).cache

\* A writer is made for a client whose cache is empty, or holds the
\* listing of the root.
InitWriter ==
    /\ cache \in {EmptyCache, ListedRoot}
    /\ now = 0
    /\ last = NoOp
    /\ ops = 0
    /\ \E n \in 0..MaxFile : remote = [name \in Files |-> Content(name, n)]
    /\ writer = NoWriter
    /\ reader = NoReader
    /\ streams = <<>>
    /\ io = NoIO
    /\ callers = None

\* The effect on the reader of a call with result r.
ReaderDone(call, hist, r) ==
    /\ reader' = r.reader
    /\ streams' = r.streams
    /\ io' = [io EXCEPT !.call = call, !.reader = reader, !.streams = streams,
                        !.data = r.data, !.outcome = r.outcome,
                        !.calls = r.calls, !.hist = hist]
    /\ UNCHANGED <<cache, now, last, ops, remote, writer, callers>>

OpenReader ==
    /\ reader.state = "none"
    /\ \E name \in Files :
         \E resp \in DownloadResponses(remote, name) :
            /\ reader' = ChunkedReader_init(streams, name, resp).reader
            /\ streams' = ChunkedReader_init(streams, name, resp).streams
            /\ io' = [io EXCEPT
                         !.call = Call("open", None, 0, 0),
                         !.reader = reader, !.streams = streams,
                         !.data = <<>>,
                         !.outcome = ChunkedReader_init(streams, name, resp).outcome,
                         !.calls = <<"files_download">>,
                         !.hist = <<>>,
                         !.after_upload = /\ writer.state = "closed"
                                          /\ writer.name = name
                                          /\ io.uploaded]
    /\ UNCHANGED <<cache, now, last, ops, remote, writer, callers>>

Seek ==
    /\ reader.state = "open"
    /\ Len(io.hist) < MaxReaderOps
    /\ \E whence \in {0, 1, 2} :
         \E offset \in IF whence = 0 THEN 0..MaxFile
                       ELSE IF whence = 1 THEN 1..MaxAmt ELSE {0} :
            ReaderDone(SeekCall(offset, whence),
                       Append(io.hist, SeekCall(offset, whence)),
                       ChunkedReader_seek(reader, streams, offset, whence))

\* The amounts read: None, and the numbers up to MaxAmt.
Amounts == {None} \cup {Some(n) : n \in 0..MaxAmt}

\* read(amt): a download is answered only in a backward seek, and a
\* negative amount is read only in a forward seek.
ReadWith(amt) ==
    /\ reader.state = "open"
    /\ Len(io.hist) < MaxReaderOps
    /\ \E resp \in IF ~streams[reader.r].closed /\ reader.seek_pos < reader.pos
                   THEN DownloadResponses(remote, reader.name)
                   ELSE {ApiError("other")} :
         \E neg \in IF ~streams[reader.r].closed /\ reader.seek_pos > reader.pos
                    THEN NegativeReads
                    ELSE {"drain"} :
            ReaderDone(ReadCall(amt), Append(io.hist, ReadCall(amt)),
                       ChunkedReader_read(reader, streams, amt, resp, neg))

Read == \E amt \in Amounts : ReadWith(amt)

\* read() with no amount: everything is read.
ReadAll == ReadWith(None)

\* One step of an iteration over the reader.
NextItem ==
    /\ reader.state = "open"
    /\ Len(io.hist) < MaxReaderOps
    /\ \E resp \in IF ~streams[reader.r].closed /\ reader.seek_pos < reader.pos
                   THEN DownloadResponses(remote, reader.name)
                   ELSE {ApiError("other")} :
         \E neg \in IF ~streams[reader.r].closed /\ reader.seek_pos > reader.pos
                    THEN NegativeReads
                    ELSE {"drain"} :
            ReaderDone(NextCall, Append(io.hist, NextCall),
                       ChunkedReader_next(reader, streams, resp, neg))

\* close(), also after the last of the other calls.
CloseReader ==
    /\ reader.state = "open"
    /\ Len(io.hist) <= MaxReaderOps
    /\ ReaderDone(CloseCall, Append(io.hist, CloseCall),
                  ChunkedReader_close(reader, streams))

NextReader ==
    \/ OpenReader
    \/ Seek
    \/ Read
    \/ NextItem
    \/ CloseReader

SpecReader == InitFiles /\ [][NextReader]_vars

OpenWriter ==
    /\ writer.state = "none"
    /\ \E name \in Files : writer' = SpooledWriter_init(name)
    /\ io' = [io EXCEPT !.call = Call("writer", None, 0, 0)]
    /\ UNCHANGED <<cache, now, last, ops, remote, reader, streams, callers>>

Write ==
    /\ writer.state = "open"
    /\ io.writes < MaxWrites
    /\ \E data \in Data :
         /\ writer' = SpooledWriter_write(writer, data)
         /\ io' = [io EXCEPT !.call = Call("write", None, 0, 0),
                             !.writer = writer,
                             !.wrote = data,
                             !.written = io.written \o data,
                             !.writes = io.writes + 1]
    /\ UNCHANGED <<cache, now, last, ops, remote, reader, streams, callers>>

\* close() of the writer: the client uploads, and an upload that succeeds
\* replaces the file the remote stores.
CloseWriter ==
    /\ writer.state = "open"
    /\ \E resp \in UploadResponses(writer.name) :
         LET r == SpooledWriter_upload(writer, resp)
         IN  /\ writer' = r.writer
             /\ cache' = SpooledWriter_close(cache, now, r.upload.path, resp).cache
             /\ remote' = IF resp.tag = "ok"
                          THEN [remote EXCEPT ![r.upload.path] = r.upload.data]
                          ELSE remote
             /\ io' = [io EXCEPT !.call = Call("close_writer", None, 0, 0),
                                 !.writer = writer,
                                 !.outcome = r.outcome,
                                 !.uploads = Append(io.uploads, r.upload),
                                 !.uploaded = resp.tag = "ok"]
    /\ UNCHANGED <<now, last, ops, reader, streams, callers>>

NextWriter ==
    \/ OpenWriter
    \/ Write
    \/ CloseWriter
    \/ OpenReader
    \/ ReadAll

SpecWriter == InitWriter /\ [][NextWriter]_vars

----------------------------------------------------------------------------
(* The state machine of the threads calling one DropboxFS.  synchronize    *)
(* takes the lock of the DropboxFS for the whole of a call; of the calls   *)
(* below only getinfo is declared with it.                                 *)

InitCallers ==
    /\ cache \in {EmptyCache, ListedRoot}
    /\ now = 0
    /\ last = NoOp
    /\ ops = 0
    /\ remote = [name \in Files |-> <<>>]
    /\ writer = None
    /\ reader = None
    /\ streams = <<>>
    /\ io = None
    /\ callers = NoCallers

\* Caller c begins a call: todo is what it will do to the cache.
Begin(c, op, todo, lock) ==
    /\ callers.at[c].todo = <<>>
    /\ callers.made[c] < MaxCalls
    /\ callers' = [callers EXCEPT
                       !.at[c] = [op |-> op, todo |-> todo],
                       !.made[c] = @ + 1,
                       !.lock = lock,
                       !.got[c] = Release,
                       !.old = [d \in Callers |->
                                   /\ d # c
                                   /\ \/ callers.old[d]
                                      \/ /\ op \in {"setcontents", "close"}
                                         /\ todo # <<>>
                                         /\ callers.got[d].kind = "setitem"
                                         /\ callers.got[d].path = todo[1].path]]
    /\ UNCHANGED <<cache, now, last, ops>>
    /\ UNCHANGED fileVars

\* Caller c has made step i, which leaves the cache c1 and todo to do.
Stepped(c, i, c1, todo) ==
    /\ cache' = c1
    /\ callers' = [callers EXCEPT !.at[c].todo = todo,
                                  !.got[c] = IF i.kind = "get_children"
                                                /\ todo # <<>>
                                             THEN todo[Len(todo)]
                                             ELSE @,
                                  !.by = c,
                                  !.access = access(i),
                                  !.lock = IF i.kind = "release" THEN 0 ELSE @]
    /\ UNCHANGED <<now, last, ops>>
    /\ UNCHANGED fileVars

\* getinfo, under synchronize: it waits for the lock.
Getinfo ==
    \E c \in Callers, path \in Paths, cache_read \in BOOLEAN :
        /\ callers.lock = 0
        /\ Begin(c, "getinfo", <<GetForMetadata(path, cache_read), Release>>, c)

Listdir ==
    \E c \in Callers, path \in Paths :
        Begin(c, "listdir", <<GetForChildren(path)>>, callers.lock)

Makedir ==
    \E c \in Callers, path \in Paths :
        \E resp \in CreateFolderResponses(path) :
            Begin(c, "makedir",
                  IF files_create_folder(cache, now, path, resp).outcome = "ok"
                  THEN set_steps(path, resp.meta, now)
                  ELSE <<>>,
                  callers.lock)

Copy ==
    \E c \in Callers, src \in NonRoot : \E dst \in NonRoot \ {src} :
        \E resp \in RelocationResponses(src, dst) :
            Begin(c, "copy",
                  IF files_copy(cache, now, src, dst, resp).outcome = "ok"
                  THEN set_steps(dst, resp.meta, now)
                  ELSE <<>>,
                  callers.lock)

Move ==
    \E c \in Callers, src \in NonRoot : \E dst \in NonRoot \ {src} :
        \E resp \in RelocationResponses(src, dst) :
            Begin(c, "move",
                  IF files_move(cache, now, src, dst, resp).outcome = "ok"
                  THEN pop_steps(src) \o set_steps(dst, resp.meta, now)
                  ELSE <<>>,
                  callers.lock)

Remove ==
    \E c \in Callers, path \in Paths :
        \E resp \in DeleteResponses(path) :
            Begin(c, "remove",
                  IF files_delete(cache, now, path, resp).outcome = "ok"
                  THEN pop_steps(path)
                  ELSE <<>>,
                  callers.lock)

Setcontents ==
    \E c \in Callers, path \in Paths :
        \E resp \in UploadResponses(path) :
            Begin(c, "setcontents",
                  IF files_upload(cache, now, path, resp).outcome = "ok"
                  THEN pop_steps(dirname(path))
                  ELSE <<>>,
                  callers.lock)

\* close() of a writer a caller opened on name.
CallerClose ==
    \E c \in Callers, name \in Paths :
        \E resp \in UploadResponses(name) :
            Begin(c, "close",
                  IF SpooledWriter_close(cache, now, name, resp).outcome = "ok"
                  THEN pop_steps(dirname(name))
                  ELSE <<>>,
                  callers.lock)

\* The next step of a caller.  A get decides, with the remote's answers,
\* what is stored afterwards.
CallerStep ==
    \E c \in Callers :
        /\ callers.at[c].todo # <<>>
        /\ LET i == Head(callers.at[c].todo)
               rest == Tail(callers.at[c].todo)
           IN  IF i.kind = "get_metadata"
               THEN \E resp \in IF metadata(cache, now, i.path, i.cache_read,
                                            Unasked).calls = <<>>
                                 THEN {Unasked}
                                 ELSE MetadataResponses(i.path) :
                       LET r == metadata(cache, now, i.path, i.cache_read, resp)
                       IN  Stepped(c, i, cache,
                                   (IF r.outcome = "ok" /\ r.calls # <<>>
                                    THEN <<SetItem(i.path, r.cache[i.path])>>
                                    ELSE <<>>) \o rest)
               ELSE IF i.kind = "get_children"
               THEN \E s \in IF children(cache, now, i.path, Unasked, Unasked,
                                         Unasked).calls = <<>>
                              THEN {<<Unasked, Unasked, Unasked>>}
                              ELSE ScriptsOf[i.path] :
                       LET r == children(cache, now, i.path, s[1], s[2], s[3])
                       IN  Stepped(c, i, cache,
                                   (IF r.outcome = "ok" /\ r.calls # <<>>
                                    THEN entry_steps(s[Len(r.calls)].entries, now)
                                             \o <<SetItem(i.path, r.cache[i.path])>>
                                    ELSE <<>>) \o rest)
               ELSE Stepped(c, i, exec(cache, i), rest)

NextCallers ==
    \/ Getinfo
    \/ Listdir
    \/ Makedir
    \/ Copy
    \/ Move
    \/ Remove
    \/ Setcontents
    \/ CallerClose
    \/ CallerStep

SpecCallers == InitCallers /\ [][NextCallers]_vars

----------------------------------------------------------------------------
(* Properties.                                                             *)

\* The number of times name occurs in list.
Count(list, name) == Cardinality({i \in 1..Len(list) : list[i] = name})

\* The operations that change the remote.
Mutating ==
    {"files_create_folder", "files_copy", "files_move", "files_delete",
     "files_upload"}

\* last is a client operation whose remote call failed.
RemoteFailed == last.calls # <<>> /\ last.reply[Len(last.reply)].tag # "ok"

\* C1: after any sequence of client operations from an empty cache, every
\* cached path below the root whose parent is cached with a children list
\* has its basename exactly once in that list.
C1_CachedChildLinkedOnce ==
    \A p \in DOMAIN cache :
        (/\ p # Root
         /\ dirname(p) \in DOMAIN cache
         /\ cache[dirname(p)].children # None)
            => Count(cache[dirname(p)].children[1], basename(p)) = 1

\* C2: after set(P, M) in any store state reached by set and pop calls, if
\* an entry for parent(P) existed, basename(P) is exactly once in the
\* children list of that entry.
C2_SetLinksOnce ==
    (last.op = "set" /\ dirname(last.path) \in DOMAIN last.before)
        => /\ dirname(last.path) \in DOMAIN cache
           /\ cache[dirname(last.path)].children # None
           /\ Count(cache[dirname(last.path)].children[1],
                    basename(last.path)) = 1

\* C3: after pop(P) of a present entry, in any store state reached by set
\* and pop calls, P has no entry and basename(P) is nowhere in the children
\* list of the entry of parent(P).
C3_PopUnlinks ==
    (last.op = "pop" /\ last.path \in DOMAIN last.before)
        => /\ last.path \notin DOMAIN cache
           /\ (/\ dirname(last.path) \in DOMAIN cache
               /\ cache[dirname(last.path)].children # None)
                  => Count(cache[dirname(last.path)].children[1],
                           basename(last.path)) = 0

\* C4: a createFolder, copy, move, delete or upload whose remote call fails,
\* with whatever failure, leaves the cache as it was before the call: the
\* same paths with the same metadata, children lists and timestamps.
C4_FailedMutationKeepsCache ==
    (last.op \in Mutating /\ RemoteFailed) => cache = last.before

\* C4's case: a move fails while its source is cached.
C4_Witness ==
    /\ last.op = "files_move"
    /\ RemoteFailed
    /\ last.path \in DOMAIN last.before

\* C5: after a successful move(src, dst), whatever the cache held, the
\* cache has an entry for dst with the metadata the remote move returned,
\* and the next metadata(src), at any later time, calls the remote and
\* returns on success what the remote answers, never cached data.
C5_MoveInvalidatesSource ==
    (last.op = "files_move" /\ last.outcome = "ok")
        => /\ last.dst \in DOMAIN cache
           /\ cache[last.dst].metadata = last.reply[1].meta
           /\ \A resp \in MetadataResponses(last.path) :
                 LET r == metadata(cache, now, last.path, TRUE, resp)
                 IN  /\ r.calls = <<"files_get_metadata">>
                     /\ r.outcome = "ok" => r.meta = resp.meta

\* C5's case: a move succeeds whose source was cached.
C5_Witness ==
    /\ last.op = "files_move"
    /\ last.outcome = "ok"
    /\ last.path \in DOMAIN last.before

\* C6: after a successful upload to P, made directly or by a writer's
\* close, the cache has no entry for parent(P), and the next
\* children(parent(P)) fetches the metadata, and the listing it returns,
\* from the remote.
C6_UploadInvalidatesParent ==
    (last.op \in {"files_upload", "close"} /\ last.outcome = "ok")
        => /\ dirname(last.path) \notin DOMAIN cache
           /\ \A s \in ScriptsOf[dirname(last.path)] :
                 LET r == children(cache, now, dirname(last.path),
                                   s[1], s[2], s[3])
                 IN  /\ r.calls # <<>>
                     /\ r.calls[1] = "files_get_metadata"
                     /\ r.outcome = "ok"
                            => /\ r.calls[Len(r.calls)] = "files_list_folder"
                               /\ Len(r.list[1]) = Len(SelectSeq(
                                      s[Len(r.calls)].entries,
                                      LAMBDA e : e.kind # "deleted"))

\* C6's case: a writer's close uploads below a folder whose listing was
\* cached and would have been served.
C6_Witness ==
    /\ last.op = "close"
    /\ last.outcome = "ok"
    /\ dirname(last.path) \in DOMAIN last.before
    /\ ~update(last.before, last.time, dirname(last.path))

\* The entries of the listing the last children() fetched.
FetchedEntries == last.reply[Len(last.reply)].entries

\* C7: a children(path) that fetches a listing returns exactly the names of
\* its entries that are no tombstones, in the remote's order; it inserts no
\* tombstone into the cache; and a metadata() of any such child that
\* follows at once is answered from the cache, with the listed metadata and
\* no remote call.
C7_ListingSkipsTombstones ==
    (last.op = "children" /\ last.outcome = "ok" /\ last.calls # <<>>)
        => LET live == SelectSeq(FetchedEntries, LAMBDA e : e.kind # "deleted")
           IN  /\ last.list # None
               /\ Len(last.list[1]) = Len(live)
               /\ \A i \in 1..Len(live) :
                     /\ last.list[1][i] = basename(live[i].path)
                     /\ \A resp \in MetadataResponses(live[i].path) :
                           LET r == metadata(cache, last.time, live[i].path,
                                             TRUE, resp)
                           IN  /\ r.calls = <<>>
                               /\ r.outcome = "ok"
                               /\ r.meta = live[i]
               /\ \A i \in 1..Len(FetchedEntries) :
                     (/\ FetchedEntries[i].kind = "deleted"
                      /\ FetchedEntries[i].path \in DOMAIN cache)
                         => /\ FetchedEntries[i].path \in DOMAIN last.before
                            /\ cache[FetchedEntries[i].path]
                                   = last.before[FetchedEntries[i].path]
               /\ \A q \in DOMAIN cache : cache[q].metadata.kind # "deleted"

\* C7's case: a fetched listing of a tombstone followed by a live entry.
C7_Witness ==
    /\ last.op = "children"
    /\ last.outcome = "ok"
    /\ last.calls # <<>>
    /\ Len(FetchedEntries) = 2
    /\ FetchedEntries[1].kind = "deleted"
    /\ FetchedEntries[2].kind # "deleted"

\* The age of the entry of path at the start of the last operation is below
\* the time to live.
Fresh(path) == last.time - last.before[path].timestamp < CACHE_TTL

\* The metadata the answer resp to files_get_metadata stands for.
Fetched(resp) ==
    IF resp = RootUnsupported THEN FolderMetadata(Root) ELSE resp.meta

\* The last children() fetched: the metadata first, then, if that says
\* folder, the listing; and on success the entry has been replaced by the
\* fetched metadata and listing with a fresh timestamp.
ChildrenFetched ==
    /\ last.calls # <<>>
    /\ last.calls[1] = "files_get_metadata"
    /\ (last.reply[1] = RootUnsupported
            \/ (last.reply[1].tag = "ok" /\ last.reply[1].meta.kind = "folder"))
           => (Len(last.calls) >= 2 /\ last.calls[2] = "files_list_folder")
    /\ last.outcome = "ok"
           => /\ last.path \in DOMAIN cache
              /\ cache[last.path].timestamp = last.time
              /\ cache[last.path].metadata = Fetched(last.reply[1])
              /\ cache[last.path].children = last.list

\* The last children() was answered from the cache.
ChildrenServed ==
    /\ last.calls = <<>>
    /\ last.outcome = "ok"
    /\ last.list = last.before[last.path].children
    /\ cache = last.before

\* C8 as claimed, its first half: children(path) makes no remote call and
\* returns the cached list whenever the entry has a children list that is
\* not None (the empty list of an empty folder included), folder metadata
\* and is not expired.
C8_ServedWheneverListed ==
    (/\ last.op = "children"
     /\ last.path \in DOMAIN last.before
     /\ last.before[last.path].children # None
     /\ last.before[last.path].metadata.kind = "folder"
     /\ Fresh(last.path))
        => ChildrenServed

\* C8 as amended: children(path) is answered from the cache whenever the
\* entry has a children list that is not empty, folder metadata and is not
\* expired; it raises ResourceInvalidError with no remote call when an entry
\* that is not expired has metadata that is no folder; in every other case,
\* that of a cached empty list included, it fetches.
C8_ServedWheneverListedNonEmpty ==
    last.op = "children"
        => IF /\ last.path \in DOMAIN last.before
              /\ Fresh(last.path)
              /\ last.before[last.path].metadata.kind # "folder"
           THEN /\ last.outcome = "ResourceInvalidError"
                /\ last.calls = <<>>
                /\ cache = last.before
           ELSE IF /\ last.path \in DOMAIN last.before
                   /\ last.before[last.path].children # None
                   /\ last.before[last.path].children # Some(<<>>)
                   /\ Fresh(last.path)
           THEN ChildrenServed
           ELSE ChildrenFetched

\* C8's case: children() of a folder cached with an empty children list and
\* not expired.
C8_Witness ==
    /\ last.op = "children"
    /\ last.path \in DOMAIN last.before
    /\ last.before[last.path].children = Some(<<>>)
    /\ last.before[last.path].metadata.kind = "folder"
    /\ Fresh(last.path)
    /\ last.outcome = "ok"

\* C9: metadata(path, cache_read) returns the cached metadata with no remote
\* call exactly when cache_read is true and the cache has an entry for path
\* with metadata that is not expired; in every other case it makes exactly
\* one files_get_metadata call and, on success, the entry of path holds the
\* fetched metadata with a fresh timestamp.
C9_MetadataServedOrFetched ==
    last.op = "metadata"
        => IF /\ last.cache_read
              /\ last.path \in DOMAIN last.before
              /\ last.before[last.path].metadata # NoMetadata
              /\ Fresh(last.path)
           THEN /\ last.calls = <<>>
                /\ last.outcome = "ok"
                /\ last.meta = last.before[last.path].metadata
                /\ cache = last.before
           ELSE /\ last.calls = <<"files_get_metadata">>
                /\ last.outcome = "ok"
                       => /\ last.meta = Fetched(last.reply[1])
                          /\ last.path \in DOMAIN cache
                          /\ cache[last.path].metadata = last.meta
                          /\ cache[last.path].timestamp = last.time

\* C9's case: metadata() with cache reads allowed finds an expired entry
\* and fetches.
C9_Witness ==
    /\ last.op = "metadata"
    /\ last.cache_read
    /\ last.path \in DOMAIN last.before
    /\ ~Fresh(last.path)
    /\ last.outcome = "ok"
    /\ last.meta # last.before[last.path].metadata

\* C10: when metadata(path) fetches, a remote not-found error raises
\* ResourceNotFoundError, a tombstone raises ResourceNotFoundError, every
\* other ApiError raises RemoteConnectionError and a BadInputError for a
\* malformed path is raised unchanged; in all four cases the cache is as it
\* was, and no tombstone is ever in the cache.
C10_MetadataErrors ==
    /\ \A q \in DOMAIN cache : cache[q].metadata.kind # "deleted"
    /\ (last.op = "metadata" /\ last.calls # <<>>)
           => LET a == last.reply[1]
              IN  /\ a = ApiError("not_found")
                         => last.outcome = "ResourceNotFoundError"
                  /\ (a.tag = "ok" /\ a.meta.kind = "deleted")
                         => last.outcome = "ResourceNotFoundError"
                  /\ (a.tag = "ApiError" /\ a.error # "not_found")
                         => last.outcome = "RemoteConnectionError"
                  /\ a = Malformed => last.outcome = "BadInputError"
                  /\ last.outcome # "ok" => cache = last.before

\* C10's case: the fetch for a cached path is answered with a tombstone.
C10_Witness ==
    /\ last.op = "metadata"
    /\ last.calls # <<>>
    /\ last.reply[1].tag = "ok"
    /\ last.reply[1].meta.kind = "deleted"
    /\ last.path \in DOMAIN last.before

\* The answers of the last operation that are failures of the remote API.
ApiFailures == {i \in 1..Len(last.reply) : last.reply[i].tag = "ApiError"}

\* C11: when children(path) fetches, every ApiError of the metadata fetch
\* (a not-found among them) and of a listing fetch raises
\* RemoteConnectionError, a BadInputError for a malformed path is raised
\* unchanged, and on each of these failures the cache is as it was.
C11_ChildrenErrors ==
    (last.op = "children" /\ last.calls # <<>>)
        => /\ ApiFailures # {} => last.outcome = "RemoteConnectionError"
           /\ (\E i \in 1..Len(last.reply) : last.reply[i] = Malformed)
                  => last.outcome = "BadInputError"
           /\ last.outcome \in {"RemoteConnectionError", "BadInputError"}
                  => cache = last.before

\* C11's case: the metadata fetch for a path whose cached entry has
\* expired is answered with not-found.
C11_Witness ==
    /\ last.op = "children"
    /\ last.reply = <<ApiError("not_found")>>
    /\ last.path \in DOMAIN last.before
    /\ ~Fresh(last.path)

\* The number of calls of name the last operation made.
CallCount(name) == Cardinality({i \in 1..Len(last.calls) : last.calls[i] = name})

\* C12: the only retry is that of the listing in children: a second
\* files_list_folder call is made exactly when the first is rejected for the
\* root path's syntax, there is never a third, an ApiError of the retry
\* raises RemoteConnectionError, and every other operation, like children
\* for files_get_metadata, makes each remote call at most once.
C12_OnlyRootListingRetried ==
    /\ \A name \in {"files_get_metadata", "files_create_folder", "files_copy",
                     "files_move", "files_delete", "files_upload"} :
           CallCount(name) <= 1
    /\ CallCount("files_list_folder") <= 2
    /\ CallCount("files_list_folder") > 0 => last.op = "children"
    /\ CallCount("files_list_folder") = 2
           <=> (Len(last.reply) >= 2 /\ last.reply[2] = RootAsEmptyString)
    /\ (CallCount("files_list_folder") = 2 /\ last.reply[3].tag = "ApiError")
           => last.outcome = "RemoteConnectionError"

\* C12's case: the retry of the listing of the root fails.
C12_Witness ==
    /\ last.op = "children"
    /\ Len(last.reply) = 3
    /\ last.reply[2] = RootAsEmptyString
    /\ last.reply[3].tag = "ApiError"

\* C13: children(path) raises ResourceInvalidError when the fetched metadata
\* is no folder, with no listing call and the cache as it was, and when an
\* entry that is not expired holds metadata that is no folder, with no
\* remote call at all.
C13_NotAFolder ==
    last.op = "children"
        => /\ (/\ last.calls # <<>>
               /\ last.reply[1].tag = "ok"
               /\ last.reply[1].meta.kind # "folder")
                  => /\ last.outcome = "ResourceInvalidError"
                     /\ last.calls = <<"files_get_metadata">>
                     /\ cache = last.before
           /\ (/\ last.path \in DOMAIN last.before
               /\ Fresh(last.path)
               /\ last.before[last.path].metadata.kind # "folder")
                  => /\ last.outcome = "ResourceInvalidError"
                     /\ last.calls = <<>>
                     /\ cache = last.before

\* C13's case: the path was cached as a folder with a listing, the entry
\* has expired, and the fetch finds a file.
C13_Witness ==
    /\ last.op = "children"
    /\ last.path \in DOMAIN last.before
    /\ last.before[last.path].metadata.kind = "folder"
    /\ last.before[last.path].children # None
    /\ last.calls # <<>>
    /\ last.reply[1].tag = "ok"
    /\ last.reply[1].meta.kind = "file"

\* C14: files_create_folder(path) raises DestinationExistsError on a remote
\* conflict and RemoteConnectionError on every other ApiError; on success
\* the entry of path holds the metadata the remote returned, no children
\* list and a fresh timestamp, and basename(path) is in the children list of
\* the parent's entry if the parent had one.
C14_CreateFolder ==
    last.op = "files_create_folder"
        => LET a == last.reply[1]
           IN  /\ a = ApiError("conflict")
                      => last.outcome = "DestinationExistsError"
               /\ (a.tag = "ApiError" /\ a.error # "conflict")
                      => last.outcome = "RemoteConnectionError"
               /\ a.tag = "ok"
                      => /\ last.outcome = "ok"
                         /\ last.path \in DOMAIN cache
                         /\ cache[last.path] = CacheItem(a.meta, None, last.time)
                         /\ dirname(last.path) \in DOMAIN last.before
                                => /\ dirname(last.path) \in DOMAIN cache
                                   /\ cache[dirname(last.path)].children # None
                                   /\ Count(cache[dirname(last.path)].children[1],
                                            basename(last.path)) >= 1

\* C14's case: a folder is created below a folder whose entry was cached.
C14_Witness ==
    /\ last.op = "files_create_folder"
    /\ last.outcome = "ok"
    /\ dirname(last.path) \in DOMAIN last.before

\* C15: files_copy and files_move raise ResourceNotFoundError when the
\* lookup of the source finds nothing, DestinationExistsError on a conflict
\* at the destination and RemoteConnectionError on every other ApiError, a
\* lookup of the source that fails otherwise included; a successful copy
\* sets the entry of dst and leaves the entry of src as it was.
C15_RelocationErrors ==
    last.op \in {"files_copy", "files_move"}
        => LET a == last.reply[1]
           IN  /\ a = ApiError("from_lookup_not_found")
                      => last.outcome = "ResourceNotFoundError"
               /\ a = ApiError("to_conflict")
                      => last.outcome = "DestinationExistsError"
               /\ (/\ a.tag = "ApiError"
                   /\ a.error \notin {"from_lookup_not_found", "to_conflict"})
                      => last.outcome = "RemoteConnectionError"
               /\ (last.op = "files_copy" /\ a.tag = "ok")
                      => /\ last.outcome = "ok"
                         /\ last.dst \in DOMAIN cache
                         /\ cache[last.dst] = CacheItem(a.meta, None, last.time)
                         /\ last.path \in DOMAIN cache
                                <=> last.path \in DOMAIN last.before
                         /\ last.path \in DOMAIN cache
                                => cache[last.path] = last.before[last.path]

\* C15's case: the lookup of the source of a copy fails, though not with
\* not-found, while the source is cached.
C15_Witness ==
    /\ last.op = "files_copy"
    /\ last.reply = <<ApiError("from_lookup_other")>>
    /\ last.path \in DOMAIN last.before

\* What the remote answers a delete that succeeds.
Deleted(path) == Ok(Metadata("deleted", path))

\* C16: in every state the client reaches, files_delete(path) raises
\* ResourceNotFoundError on a remote not-found and RemoteConnectionError on
\* every other ApiError; when it succeeds the cache holds no entry for path,
\* basename(path) is no longer in the children list of the parent's entry,
\* and a metadata(path) that follows calls the remote.
C16_DeleteUnlinks ==
    \A path \in NonRoot :
        /\ files_delete(cache, now, path,
                        ApiError("path_lookup_not_found")).outcome
               = "ResourceNotFoundError"
        /\ files_delete(cache, now, path, ApiError("other")).outcome
               = "RemoteConnectionError"
        /\ LET r == files_delete(cache, now, path, Deleted(path))
           IN  /\ r.outcome = "ok"
               /\ path \notin DOMAIN r.cache
               /\ (/\ dirname(path) \in DOMAIN r.cache
                   /\ r.cache[dirname(path)].children # None)
                      => Count(r.cache[dirname(path)].children[1],
                               basename(path)) = 0
               /\ \A resp \in MetadataResponses(path) :
                      metadata(r.cache, now, path, TRUE, resp).calls # <<>>

\* The file the reader was opened on.
File == remote[reader.name]

\* At most n bytes of the file from byte first on, counted from 0.
FileBytes(first, n) == SubSeq(File, first + 1, Min(first + n, Len(File)))

\* C17: on a reader just opened on a file of at least 3 * n bytes, the second
\* read of read(n), seek(n), read(n) and the read of seek(n), read(n) both
\* return bytes n .. 2n - 1 of the file.
C17_SeekThenReadAgrees ==
    \A n \in 1..MaxAmt :
        (reader.state = "open" /\ Len(File) >= 3 * n)
            => /\ io.hist = <<ReadCall(Some(n)), SeekCall(n, 0), ReadCall(Some(n))>>
                      => (io.outcome = "ok" /\ io.data = FileBytes(n, n))
               /\ io.hist = <<SeekCall(n, 0), ReadCall(Some(n))>>
                      => (io.outcome = "ok" /\ io.data = FileBytes(n, n))

\* The last call was a read that found the stream open and seek_pos behind pos.
BackwardRead ==
    /\ io.call.op = "read"
    /\ ~io.streams[io.reader.r].closed
    /\ io.reader.seek_pos < io.reader.pos

C19_RoundTrip ==
    (io.call = ReadCall(None) /\ io.hist = <<ReadCall(None)>> /\ io.after_upload)
        => (io.outcome = "ok" /\ io.data = io.written)

\* C19's case: the bytes, more than max_buffer, were written in two writes
\* of which the first stayed below max_buffer.
C19_Witness ==
    /\ io.call = ReadCall(None)
    /\ io.hist = <<ReadCall(None)>>
    /\ io.after_upload
    /\ io.writes = 2
    /\ Len(io.written) > MaxBuffer
    /\ Len(io.wrote) = MaxBuffer
    /\ io.wrote # io.written

\* C20: no upload is issued before the writer's close; its close issues
\* exactly one upload, in overwrite mode, to the writer's name, of all the
\* data written in the order written, and the backing store is closed
\* afterwards.
C20_OneUploadOnClose ==
    /\ writer.state \in {"none", "open"} => io.uploads = <<>>
    /\ writer.state = "closed"
           => /\ io.uploads = <<Upload(io.written, writer.name, "overwrite")>>
              /\ writer.released

\* C21: over the writes to one writer a backing store on disk is created
\* at most once, and a write to a writer backed by disk leaves it backed by
\* disk and creates no store.
C21_SpoolsOnce ==
    /\ writer.stores <= 1
    /\ (io.call.op = "write" /\ io.writer.backing = "disk")
           => /\ writer.backing = "disk"
              /\ writer.stores = io.writer.stores

\* close() is among the calls before the last one.
ClosedBefore == \E j \in 1..(Len(io.hist) - 1) : io.hist[j] = CloseCall

\* C22: whatever seek, read and close calls are made on a reader, no stream
\* it opened is closed twice; a stream it has replaced by a new download
\* has been closed, once; once close() has been called every stream it
\* opened is closed and none is opened any more; and a close() after the
\* first changes nothing.
C22_CloseIdempotent ==
    /\ \A i \in 1..Len(streams) :
           /\ streams[i].closes <= 1
           /\ i # reader.r => (streams[i].closed /\ streams[i].closes = 1)
    /\ (\E j \in 1..Len(io.hist) : io.hist[j] = CloseCall)
           => /\ reader.closed
              /\ \A i \in 1..Len(streams) : streams[i].closed
    /\ ClosedBefore
           => /\ Len(streams) = Len(io.streams)
              /\ io.calls = <<>>
    /\ (io.call = CloseCall /\ ClosedBefore)
           => /\ io.outcome = "ok"
              /\ reader = io.reader
              /\ streams = io.streams

\* C22's case: close() after a backward seek made the reader download the
\* file again, with bytes left to read in the new stream.
C22_Witness ==
    /\ io.call = CloseCall
    /\ Len(io.hist) = 4
    /\ Len(io.streams) = 2
    /\ ~io.streams[2].closed
    /\ streams[2].closes = 1

\* C22's second case: close() is called twice in a row.
C22_WitnessTwice ==
    /\ io.call = CloseCall
    /\ ClosedBefore
    /\ io.hist[Len(io.hist) - 1] = CloseCall

\* C23: an entry is expired exactly when now - timestamp >= CACHE_TTL: one
\* with timestamp = now - CACHE_TTL is expired, one with timestamp =
\* now - CACHE_TTL + 1 is not, and renewing an entry makes it not expired;
\* so a metadata() that may read the cache fetches for an entry exactly
\* CACHE_TTL old and serves one a second younger.
C23_ExpiryBoundary ==
    /\ \A p \in DOMAIN cache :
           /\ expired(cache[p], now) <=> now - cache[p].timestamp >= CACHE_TTL
           /\ cache[p].timestamp = now - CACHE_TTL => expired(cache[p], now)
           /\ cache[p].timestamp = now - CACHE_TTL + 1 => ~expired(cache[p], now)
           /\ ~expired(renew(cache[p], now), now)
           /\ renew(cache[p], now).timestamp = now
    /\ (/\ last.op = "metadata"
        /\ last.cache_read
        /\ last.path \in DOMAIN last.before
        /\ last.before[last.path].metadata # NoMetadata)
           => /\ last.before[last.path].timestamp = last.time - CACHE_TTL
                     => last.calls # <<>>
              /\ last.before[last.path].timestamp = last.time - CACHE_TTL + 1
                     => last.calls = <<>>

\* C23's case: a metadata() that may read the cache finds an entry exactly
\* CACHE_TTL old.
C23_Witness ==
    /\ last.op = "metadata"
    /\ last.cache_read
    /\ last.path \in DOMAIN last.before
    /\ last.before[last.path].metadata # NoMetadata
    /\ last.before[last.path].timestamp = last.time - CACHE_TTL
    /\ last.time = CACHE_TTL

\* Caller c is between the two statements of a DropboxCache.set or a
\* DropboxCache.pop: the item is stored or removed, and the children list
\* of the cached parent does not reflect it yet.
Linking(c) ==
    /\ callers.at[c].todo # <<>>
    /\ Head(callers.at[c].todo).kind \in {"add_child", "del_child"}
    /\ exec(cache, Head(callers.at[c].todo)) # cache

\* C24: with several threads calling listdir, getinfo, makedir, copy, move,
\* remove, setcontents and a writer's close of one DropboxFS, no thread
\* reads or writes the cache while another is between storing or removing
\* an item and updating the children list of the item's parent.
C24_NoPartialLink ==
    \A c \in Callers :
        Linking(c) => (callers.by = c \/ callers.access = "none")

\* metadata('/') has just fetched and been rejected with 'The root folder
\* is unsupported'.
RootRejected ==
    /\ last.op = "metadata"
    /\ last.path = Root
    /\ last.reply = <<RootUnsupported>>

\* C25: a metadata('/') the remote rejects with the root-folder-unsupported
\* condition raises nothing and returns a synthetic folder metadata for
\* '/', whose info says folder, size 0 and no modified time; the value is
\* cached, so that until it expires a metadata('/') that follows is served
\* it with no remote call and a children('/') that follows is not rejected
\* as no folder, whatever the remote answers.
C25_SyntheticRoot ==
    RootRejected
        => /\ last.outcome = "ok"
           /\ last.meta = FolderMetadata(Root)
           /\ metadata_to_info(last.meta).isdir
           /\ ~metadata_to_info(last.meta).isfile
           /\ metadata_to_info(last.meta).size = 0
           /\ metadata_to_info(last.meta).modified_time = None
           /\ Root \in DOMAIN cache
           /\ cache[Root].metadata = FolderMetadata(Root)
           /\ cache[Root].timestamp = last.time
           /\ now - last.time < CACHE_TTL
                  => /\ \A resp \in MetadataResponses(Root) :
                            LET r == metadata(cache, now, Root, TRUE, resp)
                            IN  /\ r.calls = <<>>
                                /\ r.outcome = "ok"
                                /\ r.meta = FolderMetadata(Root)
                     /\ \A s \in ScriptsOf[Root] :
                            children(cache, now, Root, s[1], s[2], s[3]).outcome
                                # "ResourceInvalidError"

\* C25's case: the rejected metadata('/') found the root cached as expired.
C25_Witness ==
    /\ RootRejected
    /\ Root \in DOMAIN last.before
    /\ ~Fresh(Root)

\* The last call was a read that found the stream open and seek_pos ahead
\* of pos.
ForwardRead ==
    /\ io.call.op = "read"
    /\ ~io.streams[io.reader.r].closed
    /\ io.reader.seek_pos > io.reader.pos

\* C26: a read(m) that finds the stream open and seek_pos ahead of pos
\* reads and discards exactly seek_pos - pos bytes of the same stream,
\* which it neither closes nor replaces by a new download, and returns
\* bytes seek_pos .. seek_pos + m - 1 of the file.
C26_ForwardSeek ==
    ForwardRead
        => LET k == io.reader.seek_pos
               gap == io.reader.seek_pos - io.reader.pos
               before == io.streams[io.reader.r]
               amt == io.call.amt
           IN  /\ io.outcome = "ok"
               /\ io.calls = <<>>
               /\ Len(streams) = Len(io.streams)
               /\ reader.r = io.reader.r
               /\ streams[reader.r].closes = 0
               /\ streams[reader.r].off
                      = Min(before.off + gap, Len(File)) + Len(io.data)
               /\ io.data = IF amt = None THEN FileBytes(k, Len(File))
                            ELSE FileBytes(k, amt[1])

\* The last call was a read that found the stream open and returned.
OpenRead ==
    /\ io.call.op = "read"
    /\ ~io.streams[io.reader.r].closed
    /\ io.outcome = "ok"

\* C27: after a read(amt) that found the stream open, pos equals seek_pos,
\* and both are the position the read started from plus the number of
\* bytes it returned, also where fewer than amt were left; a read with no
\* amount or with 0 returns all that is left and leaves both at the length
\* of the file.
C27_PositionsFollowData ==
    OpenRead
        => LET k == io.reader.seek_pos
               amt == io.call.amt
           IN  /\ reader.pos = reader.seek_pos
               /\ reader.pos = k + Len(io.data)
               /\ (amt = None \/ amt = Some(0))
                      => /\ io.data = FileBytes(k, Len(File))
                         /\ reader.pos = Len(File)

\* The parts of C27 the code keeps: pos equals seek_pos after the read, and
\* a read with no amount leaves both at the length of the file.
C27_PositionsAgree ==
    OpenRead
        => /\ reader.pos = reader.seek_pos
           /\ (io.call.amt = None \/ io.call.amt = Some(0))
                  => reader.pos = reader.bytes

\* tell()
tell(rd) == rd.seek_pos

\* C28: seek(offset, whence) sets seek_pos to offset for whence 0, to
\* seek_pos + offset for whence 1 and to the length of the file + offset for
\* whence 2; it makes no remote call and leaves pos and the stream as they
\* were; tell() then reports the position sought, that of the last of
\* several seeks.
C28_SeekSetsPosition ==
    io.call.op = "seek"
        => /\ io.outcome = "ok"
           /\ io.calls = <<>>
           /\ streams = io.streams
           /\ reader.pos = io.reader.pos
           /\ reader.r = io.reader.r
           /\ tell(reader) = IF io.call.whence = 0 THEN io.call.offset
                             ELSE IF io.call.whence = 1
                             THEN tell(io.reader) + io.call.offset
                             ELSE io.reader.bytes + io.call.offset

\* C29: a write to a writer backed by memory switches it to disk exactly
\* when the bytes buffered before the write plus len(data) reach or exceed
\* max_buffer, and otherwise leaves it backed by memory; at the switch one
\* store is created, and it holds the bytes written before, in order,
\* followed by the new data.
C29_SwitchAtThreshold ==
    (io.call.op = "write" /\ io.writer.backing = "memory")
        => /\ Len(io.writer.temp) = io.writer.bytes
           /\ writer.backing = "disk"
                  <=> io.writer.bytes + Len(io.wrote) >= MaxBuffer
           /\ writer.backing = "memory"
                  <=> io.writer.bytes + Len(io.wrote) < MaxBuffer
           /\ writer.stores = IF writer.backing = "disk" THEN 1 ELSE 0
           /\ writer.temp = io.writer.temp \o io.wrote
           /\ writer.temp = io.written
           /\ writer.bytes = Len(io.written)

\* C29's case: a first write stays below max_buffer and the second brings
\* the total to max_buffer exactly.
C29_Witness ==
    /\ io.call.op = "write"
    /\ io.writes = 2
    /\ io.writer.backing = "memory"
    /\ io.writer.bytes > 0
    /\ io.writer.bytes + Len(io.wrote) = MaxBuffer
    /\ writer.backing = "disk"

\* The last operation was a children(path) that fetched a listing.
Listed(path) ==
    /\ last.op = "children"
    /\ last.path = path
    /\ last.outcome = "ok"
    /\ last.calls # <<>>

\* C30: an entry has a children list that is not None only if a listing of
\* its path has been fetched since the entry was created: no operation
\* leaves a path with a children list that had none before, except a
\* children() of that path that fetched its listing.
C30_ListedOnlyByListing ==
    \A p \in DOMAIN cache :
        cache[p].children # None
            => \/ Listed(p)
               \/ /\ p \in DOMAIN last.before
                  /\ last.before[p].children # None

\* The last operation left the entry of p, which had a children list,
\* without one.
LostListing(p) ==
    /\ p \in DOMAIN last.before
    /\ last.before[p].children # None
    /\ p \in DOMAIN cache
    /\ cache[p].children = None

\* The last operation stored a new item at p: a DropboxCache.set of p, or
\* the store of p as a live entry of a listing of its parent.
Overwrote(p) ==
    /\ last.outcome = "ok"
    /\ \/ last.op = "files_create_folder" /\ last.path = p
       \/ last.op \in {"files_copy", "files_move"} /\ last.dst = p
       \/ /\ last.op = "children"
          /\ last.calls # <<>>
          /\ \E i \in 1..Len(FetchedEntries) :
                 FetchedEntries[i].path = p /\ FetchedEntries[i].kind # "deleted"

\* The last operation was a metadata(p) that fetched and stored.
Refetched(p) ==
    /\ last.op = "metadata"
    /\ last.path = p
    /\ last.outcome = "ok"
    /\ last.calls # <<>>

\* C31 as claimed: an entry with a children list is left without one only
\* by a DropboxCache.set of its path or by its store as an entry of a
\* listing; by no other operation, and by no metadata() of its path.
C31_ListingLostOnlyBySet ==
    \A p \in Paths : LostListing(p) => Overwrote(p)

\* C31 as amended: an entry with a children list is left without one only
\* by an operation that stores a new item at its path: a DropboxCache.set
\* of the path, its store as an entry of a listing of its parent, or a
\* metadata() of the path that fetches.
C31_ListingLostOnlyByStore ==
    \A p \in Paths : LostListing(p) => (Overwrote(p) \/ Refetched(p))

\* C31's case: a metadata() that may read the cache finds a listed entry
\* expired, fetches, and leaves it without its children list.
C31_Witness ==
    \E p \in Paths :
        /\ LostListing(p)
        /\ Refetched(p)
        /\ last.cache_read
        /\ last.before[p].children # Some(<<>>)

\* C32: every cached entry that has a children list has metadata of a
\* folder.
C32_ListedIsFolder ==
    \A p \in DOMAIN cache :
        cache[p].children # None => cache[p].metadata.kind = "folder"

\* C33: a DropboxCache.pop of a path that has no entry leaves the whole
\* cache as it was, the children list of the parent's entry included.
C33_PopAbsentIsNoOp ==
    (last.op = "pop" /\ last.path \notin DOMAIN last.before)
        => cache = last.before

\* C34 as claimed: no call on a reader and no call on a writer, its close
\* included, changes the cache.
C34_StreamsKeepCache == [][cache' = cache]_vars

\* C34 as amended: no call on a reader and no write changes the cache; the
\* close of a writer changes it only when its upload succeeds, and then
\* exactly as DropboxCache.pop of the parent of the written path does.
C34_OnlyUploadChangesCache ==
    [][cache' # cache
          => /\ writer.state = "open"
             /\ writer'.state = "closed"
             /\ io'.uploaded
             /\ cache' = DropboxCache_pop(cache, dirname(writer.name))]_vars

\* C34's case: a writer was closed and its upload succeeded while the
\* listing of the parent was cached; the parent's entry is gone, what was
\* written is read back, and the entries of the listed children are still
\* there.
C34_Witness ==
    /\ writer.state = "closed"
    /\ io.uploaded
    /\ reader.state = "open"
    /\ io.call.op = "read"
    /\ Root \notin DOMAIN cache
    /\ writer.name \in DOMAIN cache

\* C35: a step of an iteration over a reader whose stream has been read to
\* its end raises StopIteration; it does not return empty data.
C35_IterationEnds ==
    (/\ io.call = NextCall
     /\ io.reader.state = "open"
     /\ io.streams[io.reader.r].closed)
        => io.outcome = "StopIteration"

\* C36: once an upload to a path and a children() of its parent that ran
\* at the same time are both done, the cache does not hold, as a listing
\* that is not expired and that children() serves, the listing the
\* children() fetched if it was fetched before the upload was made.
C36_NoStaleListing ==
    (\A c \in Callers : callers.at[c].todo = <<>>)
        => \A c \in Callers :
               (callers.old[c] /\ callers.got[c].kind = "setitem")
                   => ~ /\ callers.got[c].path \in DOMAIN cache
                        /\ cache[callers.got[c].path] = callers.got[c].item
                        /\ ~expired(cache[callers.got[c].path], now)
                        /\ ~update(cache, now, callers.got[c].path)

\* C37: a successful upload to a path changes the cache only by removing
\* the entry of the path's parent; every other entry keeps its metadata and
\* its children list, the children list of the parent's parent included.
C37_UploadRemovesOnlyParent ==
    (last.op \in {"files_upload", "close"} /\ last.outcome = "ok")
        => \A p \in DOMAIN last.before \ {dirname(last.path)} :
               /\ p \in DOMAIN cache
               /\ cache[p] = last.before[p]

\* C38: after a successful upload to a path cached as a file, a
\* metadata() of the path that may read the cache does not return the
\* metadata cached before the upload without asking the remote.
C38_UploadInvalidatesPath ==
    (/\ last.op \in {"files_upload", "close"}
     /\ last.outcome = "ok"
     /\ last.path \in DOMAIN last.before
     /\ last.before[last.path].metadata.kind = "file")
        => \A resp \in MetadataResponses(last.path) :
               metadata(cache, now, last.path, TRUE, resp).calls # <<>>

\* C39: after a successful delete or move of a path, the cache holds no
\* entry for a path below it.
C39_DescendantsInvalidated ==
    (last.op \in {"files_delete", "files_move"} /\ last.outcome = "ok")
        => \A q \in DOMAIN cache :
               ~(q # last.path /\ IsPrefix(last.path, q))

====
